---- MODULE Spec2Model ----
(***************************************************************************)
(* A model of ripple-payments: the payments account (BaseRipplePayments    *)
(* with its Hd/Account variants), the key derivation of the Hd variant,   *)
(* the balance monitor (RippleBalanceMonitor), the retry wrapper           *)
(* retryIfDisconnected and the calls they make to the ledger client        *)
(* (rippleApi).                                                            *)
(*                                                                         *)
(* The repository ships two builds of BaseRipplePayments that differ in    *)
(* their reserve accounting and validation: the es bundle (index.es.js)    *)
(* and the umd bundle (dist/index.umd.js).  The variable `bundle`          *)
(* says which one is loaded.                                               *)
(*                                                                         *)
(* XRP amounts are integers (whole XRP); BigNumber values are records that *)
(* also cover NaN and the infinities.  Strings that the code builds or     *)
(* tests character by character (extraId) are sequences of characters.     *)
(***************************************************************************)
EXTENDS Integers, Sequences, FiniteSets, TLC

VARIABLES
    bundle,            \* "es" | "umd": which build of the library is loaded
    hotSignatory,      \* this.hotSignatory   {address, secret}
    depositSignatory,  \* this.depositSignatory
    readOnly,          \* isReadOnly()
    xprv,              \* this.xprv of HdRipplePayments (null for an xpub)
    xpub,              \* this.xpub of HdRipplePayments
    connected,         \* rippleApi.isConnected()
    pc,                \* position of the call in progress
    op,                \* the call in progress: its name and its arguments
    loc,               \* the local variables of the call in progress
    apiLog,            \* the ledger-client methods the call has invoked, in order
    result,            \* the outcome of the call
    rt                 \* retryIfDisconnected: the state of one wrapped call

vars == <<bundle, hotSignatory, depositSignatory, readOnly, xprv, xpub, connected,
          pc, op, loc, apiLog, result, rt>>

account == <<bundle, hotSignatory, depositSignatory, readOnly, xprv, xpub>>

(***************************************************************************)
(* Bounds of the model.                                                    *)
(***************************************************************************)
MaxAmount == 2      \* createTransaction amounts range over 0..MaxAmount
MaxFee == 2         \* fees (getFee results, custom rates) range over 1..MaxFee
MaxSpare == 3       \* ledger balances range up to MIN_BALANCE + MaxSpare
MaxFrom == 2        \* build source indices range over 0..MaxFrom
MaxIndex == 24      \* payport indices range over 0..MaxIndex
MaxLedger == 4      \* ledger versions range over 1..MaxLedger
MaxLive == 3        \* the ledger client pushes at most MaxLive transactions

(***************************************************************************)
(* Program constants.                                                      *)
(***************************************************************************)
MIN_BALANCE == 20
DECIMAL_PLACES == 6
MAX_RETRIES == 3
limit == 10

CONNECTION_ERRORS == {"ConnectionError", "NotConnectedError", "DisconnectedError"}
RETRYABLE_ERRORS == CONNECTION_ERRORS \cup {"TimeoutError"}

(***************************************************************************)
(* BigNumber values: finite integers, NaN, +Infinity, -Infinity.           *)
(***************************************************************************)
Fin(n) == [k |-> "fin", v |-> n]
NaN == [k |-> "nan", v |-> 0]
Infinity == [k |-> "inf", v |-> 1]
NegInfinity == [k |-> "inf", v |-> -1]

bnIsNaN(a) == a.k = "nan"
bnIsFinite(a) == a.k = "fin"

bnLt(a, b) ==
    CASE a.k = "nan" \/ b.k = "nan" -> FALSE
      [] a.k = b.k -> a.v < b.v
      [] a.k = "inf" -> a.v < 0
      [] OTHER -> b.v > 0

bnGt(a, b) == bnLt(b, a)

bnEq(a, b) == a.k # "nan" /\ b.k # "nan" /\ a = b

bnLte(a, b) == bnLt(a, b) \/ bnEq(a, b)

bnNeg(a) == IF a.k = "nan" THEN NaN ELSE [k |-> a.k, v |-> 0 - a.v]

bnPlus(a, b) ==
    CASE a.k = "nan" \/ b.k = "nan" -> NaN
      [] a.k = "fin" /\ b.k = "fin" -> Fin(a.v + b.v)
      [] a.k = "inf" /\ b.k = "inf" -> IF a.v = b.v THEN a ELSE NaN
      [] a.k = "inf" -> a
      [] OTHER -> b

bnMinus(a, b) == bnPlus(a, bnNeg(b))

(***************************************************************************)
(* Strings built character by character.                                   *)
(***************************************************************************)
DigitChars == <<"0", "1", "2", "3", "4", "5", "6", "7", "8", "9">>
Digits == {DigitChars[i] : i \in 1..10}

\* an optional string: undefined/null, or a sequence of characters
Nil == [nil |-> TRUE, s |-> <<>>]
Str(s) == [nil |-> FALSE, s |-> s]
isNil(x) == x.nil

RECURSIVE NatToString(_)
NatToString(n) ==
    IF n < 10 THEN <<DigitChars[n + 1]>>
    ELSE NatToString(n \div 10) \o <<DigitChars[(n % 10) + 1]>>

\* String(index) for an integer index
String(n) == IF n < 0 THEN <<"-">> \o NatToString(0 - n) ELSE NatToString(n)

\* EXTRA_ID_REGEX = /^[0-9]+$/
isValidExtraId(extraId) ==
    /\ ~extraId.nil
    /\ Len(extraId.s) > 0
    /\ \A i \in 1..Len(extraId.s) : extraId.s[i] \in Digits

(***************************************************************************)
(* Addresses.  The tokens of ValidAddresses stand for strings that match   *)
(* ADDRESS_REGEX, "bad" for one that does not.                             *)
(***************************************************************************)
ValidAddresses == {"rHOT", "rDEP", "rEXT"}
AddressStrings == ValidAddresses \cup {"bad"}

isValidAddress(address) == address \in ValidAddresses

(***************************************************************************)
(* Signatories: HdRipplePayments derives both from one extended key,       *)
(* AccountRipplePayments takes one account config for each.                *)
(***************************************************************************)
\* a secret is either a string (form "string") or a key pair object (form
\* "keypair"); priv is the secret string or the pair's private key, "" when
\* it is withheld
StringSecret(s) == [form |-> "string", priv |-> s]
KeyPairSecret(privateKey) == [form |-> "keypair", priv |-> privateKey]

\* a bip32 node: whether it is neutered (an xpub), and the path that leads
\* to it from the master key; its depth is the length of the path, and it
\* has a parent fingerprint when its depth is not 0
HdNode(neutered, path) == [null |-> FALSE, neutered |-> neutered, path |-> path]
NoHdNode == [null |-> TRUE, neutered |-> TRUE, path |-> <<>>]
Hardened(i) == [i |-> i, hardened |-> TRUE]
Child(i) == [i |-> i, hardened |-> FALSE]

\* "m/44'/144'/0'".split('/').slice(1)
derivationPathParts == <<Hardened(44), Hardened(144), Hardened(0)>>

\* the outcome of a derivation: the node, or the error thrown
Derived(key) ==
    [error |-> "", key |-> key,
     signatory |-> [address |-> "", secret |-> [form |-> "none", priv |-> ""]]]
DeriveFailed(e) == [Derived(NoHdNode) EXCEPT !.error = e]

\* bip32 derive / deriveHardened: a neutered node has no hardened child
derive(key, part) ==
    IF part.hardened /\ key.neutered THEN DeriveFailed("MissingPrivateKey")
    ELSE Derived([key EXCEPT !.path = Append(@, part)])

\* bip32 derivePath of 'm/' followed by parts: a path that starts with m
\* is accepted by the master node only
RECURSIVE deriveParts(_, _)
deriveParts(key, parts) ==
    IF Len(parts) = 0 THEN Derived(key)
    ELSE LET first == derive(key, Head(parts))
         IN  IF first.error # "" THEN first
             ELSE deriveParts(first.key, Tail(parts))
derivePath(key, parts) ==
    IF Len(key.path) > 0 THEN DeriveFailed("ExpectedMaster")
    ELSE deriveParts(key, parts)

\* deriveBasePath(key)
deriveBasePath(key) ==
    LET parts == SubSeq(derivationPathParts, Len(key.path) + 1,
                        Len(derivationPathParts))
    IN  IF Len(parts) > 0 THEN derivePath(key, parts) ELSE Derived(key)

\* xprvToXpub(key): deriveBasePath(key).neutered()
xprvToXpub(key) == [deriveBasePath(key).key EXCEPT !.neutered = TRUE]

\* the two forms of hdKey that the HdRipplePayments constructor accepts:
\* a master xprv, and the xpub that xprvToXpub makes of it
Xprv == HdNode(FALSE, <<>>)
Xpub == xprvToXpub(Xprv)
HdKeys == {Xprv, Xpub}

\* hdNodeToPrivateKeyError with a private key read from every node
hdNodeToPrivateKeyErrorNever(key) == ""

\* hdNodeToPrivateKey(key): the error it throws, "" when it returns
hdNodeToPrivateKeyError(key) == IF key.neutered THEN "NeuteredNode" ELSE ""

\* the node deriveSignatory reads the keys of:
\* deriveBasePath(key).derive(0).derive(index)
derivedNode(hdKey, index) ==
    LET base == deriveBasePath(hdKey)
    IN  IF base.error # "" THEN base
        ELSE deriveParts(base.key, <<Child(0), Child(index)>>)

\* deriveSignatory(hdKey, index): the error it throws, "" when it returns
deriveSignatoryError(hdKey, index) == derivedNode(hdKey, index).error

\* publicKeyToAddress(hdNodeToPublicKey(key)) and hdNodeToPrivateKey(key):
\* one address and one private key for each path from the master key
publicKeyToAddress(path) ==
    IF path = derivationPathParts \o <<Child(0), Child(0)>> THEN "rHOT"
    ELSE IF path = derivationPathParts \o <<Child(0), Child(1)>> THEN "rDEP"
    ELSE "r" \o ToString(path)
hdNodeToPrivateKey(path) ==
    IF path = derivationPathParts \o <<Child(0), Child(0)>> THEN "privHOT"
    ELSE IF path = derivationPathParts \o <<Child(0), Child(1)>> THEN "privDEP"
    ELSE "priv" \o ToString(path)

\* deriveSignatory(hdKey, index) when it returns: privateKey is
\* derived.isNeutered() ? '' : hdNodeToPrivateKey(derived); index 0 is the
\* hot and 1 the deposit signatory
deriveSignatory(hdKey, index) ==
    LET derived == derivedNode(hdKey, index).key
    IN  [address |-> publicKeyToAddress(derived.path),
         secret |-> KeyPairSecret(IF derived.neutered THEN ""
                                  ELSE hdNodeToPrivateKey(derived.path))]

\* the three shapes of RippleAccountConfig
KeyPair(publicKey, privateKey) ==
    [type |-> "keypair", address |-> "", publicKey |-> publicKey, key |-> privateKey]
SecretPair(address, secret) ==
    [type |-> "secretpair", address |-> address, publicKey |-> "", key |-> secret]
AddressOnly(address) ==
    [type |-> "address", address |-> address, publicKey |-> "", key |-> ""]

\* rippleApi.deriveAddress(publicKey)
deriveAddress(publicKey) == IF publicKey = "pubHOT" THEN "rHOT" ELSE "rDEP"

\* accountConfigToSignatory: the signatory it returns
accountConfigToSignatory(accountConfig) ==
    CASE accountConfig.type = "keypair" ->
            [address |-> deriveAddress(accountConfig.publicKey),
             secret |-> KeyPairSecret(accountConfig.key)]
      [] accountConfig.type = "secretpair" ->
            [address |-> accountConfig.address,
             secret |-> StringSecret(accountConfig.key)]
      [] OTHER ->
            [address |-> accountConfig.address, secret |-> StringSecret("")]

\* accountConfigToSignatory: whether it sets this.readOnly = true
accountConfigSetsReadOnly(accountConfig) ==
    CASE accountConfig.type = "keypair" -> accountConfig.key = ""
      [] accountConfig.type = "secretpair" -> accountConfig.key = ""
      [] OTHER -> TRUE

HotAccountConfigs ==
    {KeyPair("pubHOT", "privHOT"), KeyPair("pubHOT", ""),
     SecretPair("rHOT", "sHOT"), SecretPair("rHOT", ""), AddressOnly("rHOT")}
DepositAccountConfigs ==
    {KeyPair("pubDEP", "privDEP"), KeyPair("pubDEP", ""),
     SecretPair("rDEP", "sDEP"), SecretPair("rDEP", ""), AddressOnly("rDEP"),
     SecretPair("rHOT", "sHOT")}

HdConfig(hdKey) ==
    [kind |-> "hd", hdKey |-> hdKey,
     hotAccount |-> AddressOnly(""), depositAccount |-> AddressOnly("")]
AccountConfig(hot, deposit) ==
    [kind |-> "account", hdKey |-> Xpub, hotAccount |-> hot, depositAccount |-> deposit]

Configs ==
    {HdConfig(k) : k \in HdKeys}
    \cup {AccountConfig(h, d) : h \in HotAccountConfigs, d \in DepositAccountConfigs}

\* the configurations the transaction-building runs start from: a derived
\* account, and an explicit one whose hot and deposit account are the same
BuildConfigs ==
    {HdConfig(Xprv),
     AccountConfig(SecretPair("rHOT", "sHOT"), SecretPair("rHOT", "sHOT"))}

\* the constructors of HdRipplePayments and AccountRipplePayments
ConstructHot(config) ==
    IF config.kind = "hd" THEN deriveSignatory(config.hdKey, 0)
    ELSE accountConfigToSignatory(config.hotAccount)
ConstructDeposit(config) ==
    IF config.kind = "hd" THEN deriveSignatory(config.hdKey, 1)
    ELSE accountConfigToSignatory(config.depositAccount)
\* ConstructReadOnly with the account read-only only when both accounts lack a key
ConstructReadOnlyBoth(config) ==
    IF config.kind = "hd" THEN config.hdKey.neutered
    ELSE accountConfigSetsReadOnly(config.hotAccount)
         /\ accountConfigSetsReadOnly(config.depositAccount)

\* the constructor of HdRipplePayments: this.xprv and this.xpub
ConstructXprv(config) ==
    IF config.kind = "hd" /\ ~config.hdKey.neutered THEN config.hdKey ELSE NoHdNode
ConstructXpub(config) ==
    IF config.kind # "hd" THEN NoHdNode
    ELSE IF config.hdKey.neutered THEN config.hdKey ELSE xprvToXpub(config.hdKey)

\* isReadOnly(): xprv === null, or the readOnly flag of the account variant
ConstructReadOnly(config) ==
    IF config.kind = "hd" THEN ConstructXprv(config).null
    ELSE accountConfigSetsReadOnly(config.hotAccount)
         \/ accountConfigSetsReadOnly(config.depositAccount)

(***************************************************************************)
(* Payports.                                                               *)
(***************************************************************************)
Payport(address, extraId) == [address |-> address, extraId |-> extraId]

\* doGetPayport with index 1 given an extraId as well
doGetPayportTagged(index) ==
    IF index = 0 THEN Payport(hotSignatory.address, Nil)
    ELSE Payport(depositSignatory.address, Str(String(index)))

doGetPayport(index) ==
    IF index = 0 THEN Payport(hotSignatory.address, Nil)
    ELSE IF index = 1 THEN Payport(depositSignatory.address, Nil)
    ELSE Payport(depositSignatory.address, Str(String(index)))

\* the values a caller passes as a payport: a number, a string, an object
NumberArg(n) == [t |-> "number", n |-> n, address |-> "", extraId |-> Nil]
StringArg(a) == [t |-> "string", n |-> 0, address |-> a, extraId |-> Nil]
PayportArg(a, e) == [t |-> "payport", n |-> 0, address |-> a, extraId |-> e]

\* doResolvePayport: the error it throws, "" when it returns
doResolvePayportError(payport) ==
    CASE payport.t = "number" -> ""
      [] payport.t = "string" ->
            IF ~isValidAddress(payport.address) THEN "InvalidAddress" ELSE ""
      [] OTHER ->
            IF ~isValidAddress(payport.address) THEN "InvalidAddress"
            ELSE IF ~isNil(payport.extraId) /\ ~isValidExtraId(payport.extraId)
                 THEN "InvalidExtraId"
            ELSE ""

\* doResolvePayport: the payport it returns
doResolvePayport(payport) ==
    CASE payport.t = "number" -> doGetPayport(payport.n)
      [] payport.t = "string" -> Payport(payport.address, Nil)
      [] OTHER -> Payport(payport.address, payport.extraId)

\* resolveFromTo(from, to), once both payports are resolved
resolveFromTo(from, to) ==
    [fromAddress |-> doGetPayport(from).address,
     fromIndex |-> from,
     fromExtraId |-> doGetPayport(from).extraId,
     toAddress |-> doResolvePayport(to).address,
     toIndex |-> IF to.t = "number" THEN to.n ELSE -1,
     toExtraId |-> doResolvePayport(to).extraId]

(***************************************************************************)
(* Denominations, balances and fees.                                       *)
(***************************************************************************)
\* createUnitConverters(DECIMAL_PLACES)
BasePerMain == 10 ^ DECIMAL_PLACES
toMainDenomination(amount) == amount \div BasePerMain
toBaseDenomination(amount) == amount * BasePerMain

\* what rippleApi.getBalances(address) resolves to: a list of balances
XrpValues == (MIN_BALANCE - 1)..(MIN_BALANCE + MaxSpare)
XrpEntry(v) == [currency |-> "XRP", value |-> v]
BalanceLists == {<<>>} \cup {<<XrpEntry(v)>> : v \in XrpValues}

\* getBalance: balances.find(({ currency }) => currency === 'XRP'), '0' if none
xrpAmount(balances) ==
    IF \E i \in 1..Len(balances) : balances[i].currency = "XRP"
    THEN balances[CHOOSE i \in 1..Len(balances) :
                    /\ balances[i].currency = "XRP"
                    /\ \A j \in 1..(i - 1) : balances[j].currency # "XRP"].value
    ELSE 0

\* getBalance: confirmedBalance; the es bundle nets the reserve out of it
confirmedBalance(b, xrp) == IF b = "es" THEN xrp - MIN_BALANCE ELSE xrp

\* isSweepableAddressBalance(xrpAmount)
isSweepableAddressBalance(b, xrp) == IF b = "es" THEN xrp > 0 ELSE xrp > MIN_BALANCE

getBalance(b, balances) ==
    [confirmedBalance |-> confirmedBalance(b, xrpAmount(balances)),
     sweepable |-> isSweepableAddressBalance(b, xrpAmount(balances))]

\* resolveFeeOption, tiered mode: the cushion passed to rippleApi.getFee
\* ("undefined" when no branch assigns it)
\* feeCushion with the cushion of medium for every level
feeCushionFlat(targetFeeLevel) == "1.2"

\* resolveFeeOption, tiered: the cushion passed to rippleApi.getFee
feeCushion(targetFeeLevel) ==
    CASE targetFeeLevel = "low" -> "1"
      [] targetFeeLevel = "medium" -> "1.2"
      [] targetFeeLevel = "high" -> "1.5"
      [] OTHER -> "undefined"

\* feeOption.feeLevel || FeeLevel.Medium
targetLevel(feeLevel) == IF feeLevel = "undefined" THEN "medium" ELSE feeLevel

ResolvedFee(level, rate, rateType, feeMain, feeBase) ==
    [targetFeeLevel |-> level, targetFeeRate |-> rate, targetFeeRateType |-> rateType,
     feeMain |-> feeMain, feeBase |-> feeBase]

(***************************************************************************)
(* The arguments of createTransaction and createSweepTransaction.          *)
(***************************************************************************)
FeeValues == 1..MaxFee

TieredFee(level) == [feeLevel |-> level, feeRate |-> 0, feeRateType |-> "undefined"]
CustomFee(rate, rateType) == [feeLevel |-> "custom", feeRate |-> rate, feeRateType |-> rateType]
FeeOptions ==
    {TieredFee(l) : l \in {"undefined", "low", "medium", "high"}}
    \cup {CustomFee(f, "main") : f \in FeeValues}
    \cup {CustomFee(toBaseDenomination(f), "base") : f \in FeeValues}
    \cup {CustomFee(1, "other")}
\* options whose fee fields have not been read yet
UnreadFee == [feeLevel |-> "unread", feeRate |-> 0, feeRateType |-> "undefined"]

\* options.payportBalance: absent, a number, or a string ("unread": the call
\* has not read it yet)
UnreadPayportBalance == [t |-> "unread", v |-> NaN]
NoPayportBalance == [t |-> "undefined", v |-> NaN]
NumberPayportBalance(n) == [t |-> "number", v |-> Fin(n)]
StringPayportBalance(v) == [t |-> "string", v |-> v]
PayportBalanceOptions ==
    {NoPayportBalance, NumberPayportBalance(MaxAmount), StringPayportBalance(NaN)}
    \cup {StringPayportBalance(Fin(n)) : n \in 0..(MaxAmount + 1)}

Options(fee, payportBalance) ==
    [feeLevel |-> fee.feeLevel, feeRate |-> fee.feeRate, feeRateType |-> fee.feeRateType,
     payportBalance |-> payportBalance]
UnreadOptions == Options(UnreadFee, UnreadPayportBalance)

FromIndices == 0..MaxFrom
ToArgs ==
    {NumberArg(0), NumberArg(1), NumberArg(MaxFrom + 1), StringArg("rEXT"), StringArg("bad")}
Amounts == {NaN, Infinity, NegInfinity} \cup {Fin(n) : n \in 0..MaxAmount}

(***************************************************************************)
(* The state of a call.                                                    *)
(***************************************************************************)
NoFromTo ==
    [fromAddress |-> "", fromIndex |-> -1, fromExtraId |-> Nil,
     toAddress |-> "", toIndex |-> -1, toExtraId |-> Nil]
NoFee == ResolvedFee("undefined", 0, "undefined", 0, 0)
\* queried: the XRP amounts the balance queries of the call reported, in order
\* secret: the secret passed to rippleApi.sign; lookup, existingId,
\* rebroadcast, submitted, resultCode: the course of broadcastTransaction
NoSecret == [form |-> "none", priv |-> ""]
\* low, high: the history window; from, to: the range of the retrieval;
\* pages: the pages asked for; n: the transactions of the page seen so
\* far; tx, txId: the transaction at hand; yielded: the activities made from it (-1: not made yet);
\* pending: those still to deliver; visited: those delivered, in order;
\* sequenced: ledger positions and the activitySequence made from each;
\* base, baseAgain: the outcome of deriveBasePath(key) and of deriveBasePath
\* of its result; direct, viaBase: the outcome of deriveSignatory of the
\* key and of deriveBasePath(key); requireExtraId: what payport validation
\* read from the settings of the address; rejected: the ledger-client methods
\* whose call was rejected, in order; visitorThrew: the error callbackFn
\* threw
NoSignatory == [address |-> "", secret |-> [form |-> "none", priv |-> ""]]
NoDerivation == [error |-> "none", key |-> NoHdNode, signatory |-> NoSignatory]
NoLoc == [fromTo |-> NoFromTo, feeOption |-> NoFee, cushion |-> "undefined",
          payportBalance |-> NaN, amount |-> NaN, queried |-> <<>>,
          secret |-> NoSecret,
          lookup |-> "none", existingId |-> "", rebroadcast |-> FALSE,
          submitted |-> "none", resultCode |-> <<>>,
          low |-> 0, high |-> 0, from |-> 0, to |-> 0,
          pages |-> 0, n |-> 0, txId |-> <<>>, tx |-> [type |-> "none"], yielded |-> -1,
          pending |-> <<>>, visited |-> <<>>, sequenced |-> <<>>,
          base |-> NoDerivation, baseAgain |-> NoDerivation,
          direct |-> NoDerivation, viaBase |-> NoDerivation,
          requireExtraId |-> FALSE, rejected |-> <<>>, visitorThrew |-> "",
          history |-> <<>>, cursorIncluded |-> FALSE, fetched |-> FALSE,
          transactions |-> <<>>, lastTx |-> 0, live |-> <<>>, resolved |-> <<>>]
\* a transaction record (unsigned, signed or broadcast result); id "" is null
NoTx == [id |-> "", fromAddress |-> "", toAddress |-> "",
         fromExtraId |-> Nil, toExtraId |-> Nil, fromIndex |-> -1, toIndex |-> -1,
         amount |-> NaN, fee |-> 0, status |-> "none", rebroadcast |-> FALSE]
NoPayport == Payport("", Nil)
\* options.from / options.to of the balance monitor: undefined, a ledger
\* version, or a balance activity with its confirmationNumber
NoRangeArg == [t |-> "undefined", n |-> 0]
LedgerArg(n) == [t |-> "number", n |-> n]
ActivityArg(confirmationNumber) == [t |-> "activity", n |-> confirmationNumber]
\* tx: the transaction handed to signTransaction or broadcastTransaction
NoOp == [name |-> "none", from |-> -2, to |-> NumberArg(0), amount |-> NaN,
         options |-> UnreadOptions, tx |-> NoTx,
         tag |-> [present |-> FALSE, n |-> 0],
         address |-> "", rangeFrom |-> NoRangeArg, rangeTo |-> NoRangeArg,
         hdKey |-> NoHdNode, index |-> 0]
\* retryIfDisconnected is not running
NoError == [name |-> "", at |-> 0, by |-> ""]
NoRetry == [phase |-> "idle", attempt |-> 0, thrown |-> <<>>, rejected |-> NoError,
            failed |-> NoError]
\* a number or null, as resolveIndexFromAdjustment returns it
Null == [null |-> TRUE, n |-> 0]
Num(n) == [null |-> FALSE, n |-> n]
NoBalance == [confirmedBalance |-> 0, sweepable |-> FALSE]
NoResult == [status |-> "none", error |-> "", tx |-> NoTx, payport |-> NoPayport,
             balance |-> NoBalance,
             index |-> Null, from |-> 0, to |-> 0, valid |-> FALSE]

InitWith(configs) ==
    /\ bundle \in {"es", "umd"}
    /\ \E config \in configs :
          /\ hotSignatory = ConstructHot(config)
          /\ depositSignatory = ConstructDeposit(config)
          /\ readOnly = ConstructReadOnly(config)
          /\ xprv = ConstructXprv(config)
          /\ xpub = ConstructXpub(config)
    /\ connected = FALSE
    /\ pc = "idle"
    /\ op = NoOp
    /\ loc = NoLoc
    /\ apiLog = <<>>
    /\ result = NoResult
    /\ rt = NoRetry

Init == InitWith(Configs)

\* an operation throws e
Throw(e) ==
    /\ pc' = "done"
    /\ result' = [NoResult EXCEPT !.status = "error", !.error = e]

\* an operation returns the transaction record tx
ReturnTx(tx) ==
    /\ pc' = "done"
    /\ result' = [NoResult EXCEPT !.status = "ok", !.tx = tx]

\* the caller has taken the outcome of the call
Return ==
    /\ pc = "done"
    /\ pc' = "idle"
    /\ op' = NoOp
    /\ loc' = NoLoc
    /\ apiLog' = <<>>
    /\ result' = NoResult
    /\ UNCHANGED <<account, connected, rt>>

(***************************************************************************)
(* createTransaction and createSweepTransaction.  A call to the ledger     *)
(* client is one step, taken with its final outcome: what the call         *)
(* resolves to, or its rejection (in the es bundle, after the retries of   *)
(* retryDced).  The options object is immutable; each of its fields is     *)
(* drawn, and recorded in op.options, where the code first reads it.       *)
(***************************************************************************)
\* the call, up to the end of resolveFromTo
Build(name, from, to, amount) ==
    /\ pc = "idle"
    /\ op' = [NoOp EXCEPT !.name = name, !.from = from, !.to = to, !.amount = amount]
    /\ apiLog' = <<>>
    /\ IF doResolvePayportError(to) # ""
       THEN Throw(doResolvePayportError(to)) /\ UNCHANGED loc
       ELSE /\ pc' = "resolveFeeOption"
            /\ loc' = [NoLoc EXCEPT !.fromTo = resolveFromTo(from, to)]
            /\ UNCHANGED result
    /\ UNCHANGED <<account, connected, rt>>

CreateTransaction ==
    \E from \in FromIndices, to \in ToArgs, amount \in Amounts :
        Build("createTransaction", from, to, amount)

CreateSweepTransaction ==
    \E from \in FromIndices, to \in ToArgs :
        Build("createSweepTransaction", from, to, NaN)

\* what resolveFeeOption reads of the options
readFee(options, fee) ==
    [options EXCEPT !.feeLevel = fee.feeLevel, !.feeRate = fee.feeRate,
                    !.feeRateType = fee.feeRateType]

\* resolveFeeOption, feeLevel custom: the error thrown, "" when there is none
customFeeError(rateType) ==
    IF rateType = "base" \/ rateType = "main" THEN "" ELSE "UnsupportedFeeRateType"

\* resolveFeeOption, feeLevel custom: the fee it returns
customFee(rate, rateType) ==
    IF rateType = "base"
    THEN ResolvedFee("custom", rate, rateType, toMainDenomination(rate), rate)
    ELSE ResolvedFee("custom", rate, rateType, rate, toBaseDenomination(rate))

\* resolveFeeOption, tiered: the fee it returns once getFee resolved to feeMain
tieredFee(feeLevel, feeMain) ==
    ResolvedFee(targetLevel(feeLevel), feeMain, "main", feeMain, toBaseDenomination(feeMain))

\* resolveFeeOption, feeLevel custom
ResolveFeeOptionCustom ==
    /\ pc = "resolveFeeOption"
    /\ \E fee \in FeeOptions :
          /\ fee.feeLevel = "custom"
          /\ op' = [op EXCEPT !.options = readFee(op.options, fee)]
          /\ IF customFeeError(fee.feeRateType) # ""
             THEN Throw(customFeeError(fee.feeRateType)) /\ UNCHANGED loc
             ELSE /\ loc' = [loc EXCEPT !.feeOption = customFee(fee.feeRate, fee.feeRateType)]
                  /\ pc' = "resolvePayportBalance"
                  /\ UNCHANGED result
    /\ UNCHANGED <<account, connected, apiLog, rt>>

\* resolveFeeOption, tiered: rippleApi.getFee(cushion) resolves to feeMain
ResolveFeeOptionGetFee ==
    /\ pc = "resolveFeeOption"
    /\ \E fee \in FeeOptions, feeMain \in FeeValues :
          /\ fee.feeLevel # "custom"
          /\ op' = [op EXCEPT !.options = readFee(op.options, fee)]
          /\ loc' = [loc EXCEPT !.cushion = feeCushion(targetLevel(fee.feeLevel)),
                                !.feeOption = tieredFee(fee.feeLevel, feeMain)]
    /\ apiLog' = Append(apiLog, "getFee")
    /\ pc' = "resolvePayportBalance"
    /\ UNCHANGED <<account, connected, result, rt>>

\* resolveFeeOption, tiered: rippleApi.getFee(cushion) rejects
ResolveFeeOptionGetFeeRejects ==
    /\ pc = "resolveFeeOption"
    /\ \E fee \in FeeOptions :
          /\ fee.feeLevel # "custom"
          /\ op' = [op EXCEPT !.options = readFee(op.options, fee)]
          /\ loc' = [loc EXCEPT !.cushion = feeCushion(targetLevel(fee.feeLevel)),
                          !.rejected = Append(@, "getFee")]
    /\ apiLog' = Append(apiLog, "getFee")
    /\ Throw("LedgerError")
    /\ UNCHANGED <<account, connected, rt>>

\* resolvePayportBalance asking the ledger for every source
payportBalanceQueriedAlways(fromExtraId) == TRUE

\* resolvePayportBalance: whether the balance of the source is asked of the
\* ledger (isNil(fromPayport.extraId)) or read from options.payportBalance
payportBalanceQueried(fromExtraId) == isNil(fromExtraId)

\* resolvePayportBalance, source without extraId: getBalance(fromPayport),
\* rippleApi.getBalances resolves
ResolvePayportBalanceQuery ==
    /\ pc = "resolvePayportBalance"
    /\ payportBalanceQueried(loc.fromTo.fromExtraId)
    /\ apiLog' = Append(apiLog, "getBalances")
    /\ \E balances \in BalanceLists :
          loc' = [loc EXCEPT
                    !.queried = Append(loc.queried, xrpAmount(balances)),
                    !.payportBalance = Fin(getBalance(bundle, balances).confirmedBalance)]
    /\ pc' = "amount"
    /\ UNCHANGED <<account, connected, op, result, rt>>

\* resolvePayportBalance, source without extraId: rippleApi.getBalances rejects
ResolvePayportBalanceQueryRejects ==
    /\ pc = "resolvePayportBalance"
    /\ payportBalanceQueried(loc.fromTo.fromExtraId)
    /\ apiLog' = Append(apiLog, "getBalances")
    /\ Throw("LedgerError")
    /\ loc' = [loc EXCEPT !.rejected = Append(@, "getBalances")]
    /\ UNCHANGED <<account, connected, op, rt>>

\* payportBalanceOptionError with an absent payportBalance let through
payportBalanceOptionErrorLenient(payportBalance) ==
    IF payportBalance.t = "string" /\ bnIsNaN(payportBalance.v)
    THEN "InvalidPayportBalance"
    ELSE ""

\* resolvePayportBalance, source with extraId: the error thrown for
\* options.payportBalance, "" when it is accepted
payportBalanceOptionError(payportBalance) ==
    IF payportBalance.t # "string" THEN "MissingPayportBalance"
    ELSE IF bnIsNaN(payportBalance.v) THEN "InvalidPayportBalance"
    ELSE ""

\* resolvePayportBalance, source with extraId: options.payportBalance
ResolvePayportBalanceOption ==
    /\ pc = "resolvePayportBalance"
    /\ ~payportBalanceQueried(loc.fromTo.fromExtraId)
    /\ \E payportBalance \in PayportBalanceOptions :
          /\ op' = [op EXCEPT !.options.payportBalance = payportBalance]
          /\ IF payportBalanceOptionError(payportBalance) # ""
             THEN Throw(payportBalanceOptionError(payportBalance)) /\ UNCHANGED loc
             ELSE /\ loc' = [loc EXCEPT !.payportBalance = payportBalance.v]
                  /\ pc' = "amount"
                  /\ UNCHANGED result
    /\ UNCHANGED <<account, connected, apiLog, rt>>

\* createTransaction: amountBn = new BigNumber(amount)
CreateTransactionAmount ==
    /\ pc = "amount"
    /\ op.name = "createTransaction"
    /\ loc' = [loc EXCEPT !.amount = op.amount]
    /\ pc' = "doCreateTransaction"
    /\ UNCHANGED <<account, connected, op, apiLog, result, rt>>

\* sweepAmount with the fee left in the amount
sweepAmountNoFee(b, fromExtraId, payportBalance, feeMain) ==
    IF b = "umd" /\ isNil(fromExtraId)
    THEN bnMinus(payportBalance, Fin(MIN_BALANCE))
    ELSE payportBalance

\* createSweepTransaction: the amount to sweep
sweepAmount(b, fromExtraId, payportBalance, feeMain) ==
    IF b = "umd" /\ isNil(fromExtraId)
    THEN bnMinus(bnMinus(payportBalance, Fin(feeMain)), Fin(MIN_BALANCE))
    ELSE bnMinus(payportBalance, Fin(feeMain))

\* createSweepTransaction: the error thrown before doCreateTransaction, ""
\* when there is none
sweepError(b, fromExtraId, payportBalance, feeMain) ==
    IF bnLt(bnMinus(payportBalance, Fin(feeMain)), Fin(0))
    THEN "InsufficientBalanceToSweep"
    ELSE IF b = "umd" /\ isNil(fromExtraId)
            /\ bnLt(sweepAmount(b, fromExtraId, payportBalance, feeMain), Fin(0))
         THEN "InsufficientBalanceToSweepAboveReserve"
    ELSE ""

CreateSweepTransactionAmount ==
    /\ pc = "amount"
    /\ op.name = "createSweepTransaction"
    /\ LET err == sweepError(bundle, loc.fromTo.fromExtraId, loc.payportBalance,
                             loc.feeOption.feeMain)
       IN  IF err # ""
           THEN Throw(err) /\ UNCHANGED loc
           ELSE /\ loc' = [loc EXCEPT !.amount =
                             sweepAmount(bundle, loc.fromTo.fromExtraId,
                                         loc.payportBalance, loc.feeOption.feeMain)]
                /\ pc' = "doCreateTransaction"
                /\ UNCHANGED result
    /\ UNCHANGED <<account, connected, op, apiLog, rt>>

\* entryError with the self-send rule ahead of the amount rule
entryErrorSelfSendFirst(b, fromTo, amount) ==
    IF b = "es" /\ fromTo.fromAddress = fromTo.toAddress THEN "SelfSend"
    ELSE IF bnIsNaN(amount) \/ bnLte(amount, Fin(0)) THEN "InvalidAmount"
    ELSE ""

\* doCreateTransaction: the error thrown before the balance query, "" when
\* there is none (the umd bundle has no self-send check)
entryError(b, fromTo, amount) ==
    IF bnIsNaN(amount) \/ bnLte(amount, Fin(0)) THEN "InvalidAmount"
    ELSE IF b = "es" /\ fromTo.fromAddress = fromTo.toAddress THEN "SelfSend"
    ELSE ""

DoCreateTransaction ==
    /\ pc = "doCreateTransaction"
    /\ IF entryError(bundle, loc.fromTo, loc.amount) # ""
       THEN Throw(entryError(bundle, loc.fromTo, loc.amount))
       ELSE pc' = "getBalance" /\ UNCHANGED result
    /\ UNCHANGED <<account, connected, op, loc, apiLog, rt>>

\* balanceError with the fee left out of the total value
balanceErrorIgnoringFee(b, fromTo, amount, feeMain, payportBalance, addressBalance) ==
    LET floor == IF b = "es" THEN Fin(0) ELSE Fin(MIN_BALANCE)
        totalValue == amount
    IN  IF bnLt(Fin(addressBalance), floor) THEN "InsufficientReserve"
        ELSE IF bnLt(bnMinus(Fin(addressBalance), totalValue), floor)
             THEN "InsufficientBalance"
        ELSE IF ~isNil(fromTo.fromExtraId) /\ bnGt(totalValue, payportBalance)
             THEN "InsufficientPayportBalance"
        ELSE ""

\* doCreateTransaction: the error thrown after the balance query, "" when
\* there is none; addressBalance is the confirmedBalance of the query
balanceError(b, fromTo, amount, feeMain, payportBalance, addressBalance) ==
    LET floor == IF b = "es" THEN Fin(0) ELSE Fin(MIN_BALANCE)
        totalValue == bnPlus(amount, Fin(feeMain))
    IN  IF bnLt(Fin(addressBalance), floor) THEN "InsufficientReserve"
        ELSE IF bnLt(bnMinus(Fin(addressBalance), totalValue), floor)
             THEN "InsufficientBalance"
        ELSE IF ~isNil(fromTo.fromExtraId) /\ bnGt(totalValue, payportBalance)
             THEN "InsufficientPayportBalance"
        ELSE ""

\* doCreateTransaction: getBalance({ address: fromAddress }) resolves
DoCreateTransactionGetBalance ==
    /\ pc = "getBalance"
    /\ apiLog' = Append(apiLog, "getBalances")
    /\ \E balances \in BalanceLists :
          LET err == balanceError(bundle, loc.fromTo, loc.amount, loc.feeOption.feeMain,
                                  loc.payportBalance,
                                  getBalance(bundle, balances).confirmedBalance)
          IN  /\ loc' = [loc EXCEPT !.queried = Append(loc.queried, xrpAmount(balances))]
              /\ IF err # "" THEN Throw(err)
                 ELSE pc' = "preparePayment" /\ UNCHANGED result
    /\ UNCHANGED <<account, connected, op, rt>>

\* doCreateTransaction: rippleApi.getBalances rejects
DoCreateTransactionGetBalanceRejects ==
    /\ pc = "getBalance"
    /\ apiLog' = Append(apiLog, "getBalances")
    /\ Throw("LedgerError")
    /\ loc' = [loc EXCEPT !.rejected = Append(@, "getBalances")]
    /\ UNCHANGED <<account, connected, op, rt>>

\* the unsigned transaction doCreateTransaction returns
unsignedTransaction(fromTo, amount, feeMain) ==
    [id |-> "", fromAddress |-> fromTo.fromAddress, toAddress |-> fromTo.toAddress,
     fromExtraId |-> fromTo.fromExtraId, toExtraId |-> fromTo.toExtraId,
     fromIndex |-> fromTo.fromIndex, toIndex |-> fromTo.toIndex,
     amount |-> amount, fee |-> feeMain, status |-> "unsigned", rebroadcast |-> FALSE]

\* doCreateTransaction: rippleApi.preparePayment resolves
PreparePayment ==
    /\ pc = "preparePayment"
    /\ apiLog' = Append(apiLog, "preparePayment")
    /\ ReturnTx(unsignedTransaction(loc.fromTo, loc.amount, loc.feeOption.feeMain))
    /\ UNCHANGED <<account, connected, op, loc, rt>>

\* doCreateTransaction: rippleApi.preparePayment rejects
PreparePaymentRejects ==
    /\ pc = "preparePayment"
    /\ apiLog' = Append(apiLog, "preparePayment")
    /\ Throw("LedgerError")
    /\ loc' = [loc EXCEPT !.rejected = Append(@, "preparePayment")]
    /\ UNCHANGED <<account, connected, op, rt>>

InitBuild == InitWith(BuildConfigs)

NextBuild ==
    \/ CreateTransaction
    \/ CreateSweepTransaction
    \/ ResolveFeeOptionCustom
    \/ ResolveFeeOptionGetFee
    \/ ResolveFeeOptionGetFeeRejects
    \/ ResolvePayportBalanceQuery
    \/ ResolvePayportBalanceQueryRejects
    \/ ResolvePayportBalanceOption
    \/ CreateTransactionAmount
    \/ CreateSweepTransactionAmount
    \/ DoCreateTransaction
    \/ DoCreateTransactionGetBalance
    \/ DoCreateTransactionGetBalanceRejects
    \/ PreparePayment
    \/ PreparePaymentRejects
    \/ Return

SpecBuild == InitBuild /\ [][NextBuild]_vars

(***************************************************************************)
(* signTransaction.                                                        *)
(***************************************************************************)
\* signTransaction: the error thrown before rippleApi.sign, "" when there
\* is none
signError(isReadOnly, fromAddress, hot, deposit) ==
    IF isReadOnly THEN "ReadOnly"
    ELSE IF fromAddress = hot.address \/ fromAddress = deposit.address THEN ""
    ELSE "CannotSignFromAddress"

\* signTransaction: the secret passed to rippleApi.sign
signSecret(fromAddress, hot, deposit) ==
    IF fromAddress = hot.address THEN hot.secret ELSE deposit.secret

\* the unsigned transactions handed to signTransaction, and the ids
\* rippleApi.sign gives them
UnsignedTransactions ==
    {[NoTx EXCEPT !.fromAddress = a, !.toAddress = "rEXT", !.amount = Fin(1),
                  !.fee = 1, !.status = "unsigned"] : a \in ValidAddresses}
TxIds == {"TX1", "TX2"}

\* signTransaction, up to the call of rippleApi.sign
SignTransaction ==
    /\ pc = "idle"
    /\ \E unsignedTx \in UnsignedTransactions :
          /\ op' = [NoOp EXCEPT !.name = "signTransaction", !.tx = unsignedTx]
          /\ IF signError(readOnly, unsignedTx.fromAddress, hotSignatory,
                          depositSignatory) # ""
             THEN Throw(signError(readOnly, unsignedTx.fromAddress, hotSignatory,
                                  depositSignatory))
             ELSE pc' = "sign" /\ UNCHANGED result
    /\ UNCHANGED <<account, connected, loc, apiLog, rt>>

\* rippleApi.sign(txJSON, secret) returns: the transaction is Signed
RippleApiSign ==
    /\ pc = "sign"
    /\ apiLog' = Append(apiLog, "sign")
    /\ loc' = [loc EXCEPT !.secret =
                 signSecret(op.tx.fromAddress, hotSignatory, depositSignatory)]
    /\ \E id \in TxIds : ReturnTx([op.tx EXCEPT !.id = id, !.status = "signed"])
    /\ UNCHANGED <<account, connected, op, rt>>

\* rippleApi.sign(txJSON, secret) throws
RippleApiSignThrows ==
    /\ pc = "sign"
    /\ apiLog' = Append(apiLog, "sign")
    /\ loc' = [loc EXCEPT !.secret =
                 signSecret(op.tx.fromAddress, hotSignatory, depositSignatory)]
    /\ Throw("SignError")
    /\ UNCHANGED <<account, connected, op, rt>>

NextSign == SignTransaction \/ RippleApiSign \/ RippleApiSignThrows \/ Return

SpecSign == Init /\ [][NextSign]_vars

(***************************************************************************)
(* Key derivation: deriveBasePath, deriveSignatory, hdNodeToPrivateKey.    *)
(***************************************************************************)
\* the keys handed to the derivation functions: xprv and xpub, of the
\* master key, of the nodes along m/44'/144'/0', of a node below it, and of
\* nodes off that path
DerivePaths ==
    {SubSeq(derivationPathParts, 1, d) : d \in 0..3}
    \cup {derivationPathParts \o <<Child(0)>>, <<Child(0)>>,
          <<Hardened(44), Hardened(144), Hardened(1)>>}
DeriveKeys == {HdNode(n, path) : n \in BOOLEAN, path \in DerivePaths}
DeriveIndices == 0..2

\* the outcome of deriveSignatory(hdKey, index)
signatoryOutcome(hdKey, index) ==
    IF deriveSignatoryError(hdKey, index) # ""
    THEN DeriveFailed(deriveSignatoryError(hdKey, index))
    ELSE [Derived(NoHdNode) EXCEPT !.signatory = deriveSignatory(hdKey, index)]

\* deriveBasePath(key), and deriveBasePath of the key it returns
DeriveBasePath ==
    /\ pc = "idle"
    /\ \E key \in DeriveKeys :
          LET base == deriveBasePath(key)
          IN  /\ op' = [NoOp EXCEPT !.name = "deriveBasePath", !.hdKey = key]
              /\ loc' = [NoLoc EXCEPT !.base = base,
                            !.baseAgain = IF base.error = "" THEN deriveBasePath(base.key)
                                          ELSE base]
              /\ IF base.error # "" THEN Throw(base.error)
                 ELSE pc' = "done" /\ result' = [NoResult EXCEPT !.status = "ok"]
    /\ UNCHANGED <<account, connected, apiLog, rt>>

\* deriveSignatory(hdKey, index), and deriveSignatory of the account-level
\* key deriveBasePath(hdKey)
DeriveSignatory ==
    /\ pc = "idle"
    /\ \E key \in DeriveKeys, index \in DeriveIndices :
          LET base == deriveBasePath(key)
              direct == signatoryOutcome(key, index)
          IN  /\ op' = [NoOp EXCEPT !.name = "deriveSignatory", !.hdKey = key,
                                    !.index = index]
              /\ loc' = [NoLoc EXCEPT !.base = base, !.direct = direct,
                            !.viaBase = IF base.error = ""
                                        THEN signatoryOutcome(base.key, index)
                                        ELSE base]
              /\ IF direct.error # "" THEN Throw(direct.error)
                 ELSE pc' = "done" /\ result' = [NoResult EXCEPT !.status = "ok"]
    /\ UNCHANGED <<account, connected, apiLog, rt>>

\* hdNodeToPrivateKey(key)
HdNodeToPrivateKey ==
    /\ pc = "idle"
    /\ \E key \in DeriveKeys :
          /\ op' = [NoOp EXCEPT !.name = "hdNodeToPrivateKey", !.hdKey = key]
          /\ IF hdNodeToPrivateKeyError(key) # ""
             THEN Throw(hdNodeToPrivateKeyError(key))
             ELSE pc' = "done" /\ result' = [NoResult EXCEPT !.status = "ok"]
    /\ UNCHANGED <<account, connected, loc, apiLog, rt>>

NextKeys ==
    \/ SignTransaction
    \/ RippleApiSign
    \/ RippleApiSignThrows
    \/ DeriveBasePath
    \/ DeriveSignatory
    \/ HdNodeToPrivateKey
    \/ Return

SpecKeys == Init /\ [][NextKeys]_vars

(***************************************************************************)
(* broadcastTransaction, with the getTransactionInfo lookup it starts with.*)
(***************************************************************************)
\* result codes, as strings of characters
tesSUCCESS == <<"t", "e", "s", "S", "U", "C", "C", "E", "S", "S">>
tecUNFUNDED == <<"t", "e", "c", "U", "N", "F", "U", "N", "D", "E", "D">>
tefPAST_SEQ == <<"t", "e", "f", "P", "A", "S", "T", "_", "S", "E", "Q">>
ResultCodes == {<<>>, tesSUCCESS, tecUNFUNDED, tefPAST_SEQ, <<"t", "e">>}

\* String.prototype.startsWith
startsWith(str, prefix) ==
    Len(str) >= Len(prefix) /\ SubSeq(str, 1, Len(prefix)) = prefix

\* what rippleApi.submit resolves to (<<>> is an absent field)
SubmitResults ==
    {[engine_result |-> <<>>, resultCode |-> c] : c \in ResultCodes}
    \cup {[engine_result |-> tesSUCCESS, resultCode |-> tecUNFUNDED],
          [engine_result |-> tefPAST_SEQ, resultCode |-> tesSUCCESS]}

\* result.engine_result || result.resultCode || ''
resultCode(submitResult) ==
    IF submitResult.engine_result # <<>> THEN submitResult.engine_result
    ELSE submitResult.resultCode

\* broadcastFailed with every result code accepted
broadcastFailedNever(code) == FALSE

\* broadcastTransaction: whether the result code makes it throw
broadcastFailed(code) == ~startsWith(code, <<"t", "e", "s">>)

\* what rippleApi.getTransaction resolves to
LedgerTransactions ==
    {[id |-> i, type |-> t, currency |-> c] :
        i \in TxIds, t \in {"payment", "order"}, c \in {"XRP", "USD"}}

\* getTransactionInfo: the error thrown for the transaction found, "" when
\* there is none
transactionInfoError(tx) ==
    IF tx.type # "payment" THEN "UnsupportedTxType"
    ELSE IF tx.currency # "XRP" THEN "UnsupportedTxCurrency"
    ELSE ""

\* broadcastTransaction: rebroadcast = existing.id === signedTx.id
rebroadcastOf(existingId, signedTxId) == existingId = signedTxId

\* the signed transactions handed to broadcastTransaction
SignedTransactions ==
    {[NoTx EXCEPT !.id = i, !.fromAddress = "rHOT", !.toAddress = "rEXT",
                  !.amount = Fin(1), !.fee = 1, !.status = "signed"] : i \in TxIds}

\* broadcastTransaction: let rebroadcast = false, then the lookup starts
BroadcastTransaction ==
    /\ pc = "idle"
    /\ \E signedTx \in SignedTransactions :
          op' = [NoOp EXCEPT !.name = "broadcastTransaction", !.tx = signedTx]
    /\ loc' = [NoLoc EXCEPT !.lookup = "pending"]
    /\ pc' = "getTransaction"
    /\ UNCHANGED <<account, connected, apiLog, result, rt>>

\* getTransactionInfo: rippleApi.getTransaction resolves; an unsupported
\* transaction makes getTransactionInfo throw, which broadcastTransaction catches
LookupGetTransaction ==
    /\ pc = "getTransaction"
    /\ apiLog' = Append(apiLog, "getTransaction")
    /\ \E tx \in LedgerTransactions :
          IF transactionInfoError(tx) # ""
          THEN /\ loc' = [loc EXCEPT !.lookup = "failed"]
               /\ pc' = "submit"
          ELSE /\ loc' = [loc EXCEPT !.existingId = tx.id]
               /\ pc' = "getLedger"
    /\ UNCHANGED <<account, connected, op, result, rt>>

\* getTransactionInfo: rippleApi.getTransaction rejects (not found, or any
\* other error); broadcastTransaction catches what getTransactionInfo throws
LookupGetTransactionRejects ==
    /\ pc = "getTransaction"
    /\ apiLog' = Append(apiLog, "getTransaction")
    /\ loc' = [loc EXCEPT !.lookup = "failed",
                          !.rejected = Append(@, "getTransaction")]
    /\ pc' = "submit"
    /\ UNCHANGED <<account, connected, op, result, rt>>

\* getTransactionInfo: rippleApi.getLedger resolves
LookupGetLedger ==
    /\ pc = "getLedger"
    /\ apiLog' = Append(apiLog, "getLedger")
    /\ pc' = "getLedgerVersion"
    /\ UNCHANGED <<account, connected, op, loc, result, rt>>

\* getTransactionInfo: rippleApi.getLedger rejects
LookupGetLedgerRejects ==
    /\ pc = "getLedger"
    /\ apiLog' = Append(apiLog, "getLedger")
    /\ loc' = [loc EXCEPT !.lookup = "failed",
                          !.rejected = Append(@, "getLedger")]
    /\ pc' = "submit"
    /\ UNCHANGED <<account, connected, op, result, rt>>

\* getTransactionInfo: rippleApi.getLedgerVersion resolves and the lookup
\* returns the transaction info
LookupGetLedgerVersion ==
    /\ pc = "getLedgerVersion"
    /\ apiLog' = Append(apiLog, "getLedgerVersion")
    /\ loc' = [loc EXCEPT !.lookup = "returned",
                          !.rebroadcast = rebroadcastOf(loc.existingId, op.tx.id)]
    /\ pc' = "submit"
    /\ UNCHANGED <<account, connected, op, result, rt>>

\* getTransactionInfo: rippleApi.getLedgerVersion rejects
LookupGetLedgerVersionRejects ==
    /\ pc = "getLedgerVersion"
    /\ apiLog' = Append(apiLog, "getLedgerVersion")
    /\ loc' = [loc EXCEPT !.lookup = "failed",
                          !.rejected = Append(@, "getLedgerVersion")]
    /\ pc' = "submit"
    /\ UNCHANGED <<account, connected, op, result, rt>>

\* rippleApi.submit resolves
Submit ==
    /\ pc = "submit"
    /\ apiLog' = Append(apiLog, "submit")
    /\ \E submitResult \in SubmitResults :
          /\ loc' = [loc EXCEPT !.submitted = "resolved",
                                !.resultCode = resultCode(submitResult)]
          /\ IF broadcastFailed(resultCode(submitResult))
             THEN Throw("BroadcastFailed")
             ELSE ReturnTx([NoTx EXCEPT !.id = op.tx.id,
                                        !.rebroadcast = loc.rebroadcast])
    /\ UNCHANGED <<account, connected, op, rt>>

\* rippleApi.submit rejects
SubmitRejects ==
    /\ pc = "submit"
    /\ apiLog' = Append(apiLog, "submit")
    /\ loc' = [loc EXCEPT !.submitted = "rejected",
                          !.rejected = Append(@, "submit")]
    /\ Throw("LedgerError")
    /\ UNCHANGED <<account, connected, op, rt>>

NextBroadcast ==
    \/ BroadcastTransaction
    \/ LookupGetTransaction
    \/ LookupGetTransactionRejects
    \/ LookupGetLedger
    \/ LookupGetLedgerRejects
    \/ LookupGetLedgerVersion
    \/ LookupGetLedgerVersionRejects
    \/ Submit
    \/ SubmitRejects
    \/ Return

SpecBroadcast == InitBuild /\ [][NextBroadcast]_vars

(***************************************************************************)
(* retryIfDisconnected(fn, rippleApi, logger), with the init() and         *)
(* destroy() of the payments object that open and close the connection.    *)
(* promiseRetry runs the attempt function, and runs it again each time it  *)
(* ends in retry(e) while fewer than `retries` retries were made.          *)
(***************************************************************************)
\* what fn() rejects with: an error of the named class, or null
ErrorValues == CONNECTION_ERRORS \cup {"TimeoutError", "RippledError", "null"}

\* const eName = e ? e.constructor.name : ''
eNameOf(e) == IF e = "null" THEN "" ELSE e

\* retryable with every error retried
retryableAlways(eName) == TRUE

\* RETRYABLE_ERRORS.includes(eName)
retryable(eName) == eName \in RETRYABLE_ERRORS

\* connectionError with the timeout taken for a connection error
connectionErrorOrTimeout(eName) == eName \in RETRYABLE_ERRORS

\* CONNECTION_ERRORS.includes(eName)
connectionError(eName) == eName \in CONNECTION_ERRORS

\* { retries: MAX_RETRIES }: whether retry(e) in attempt number `attempt`
\* (counted from 1) starts another attempt
retriesLeft(attempt) == attempt <= MAX_RETRIES

\* the error instance fn threw in attempt number `at`
ErrorAt(name, at) == [name |-> name, at |-> at, by |-> "fn"]

\* the error instance rippleApi.disconnect or rippleApi.connect (`by`)
\* rejected with while the error of attempt number `at` was handled
ReconnectErrorAt(name, at, by) == [name |-> name, at |-> at, by |-> by]

\* what disconnect and connect reject with: an error of a class that is
\* retried when fn throws it, or one of another class
ReconnectErrors == {"ConnectionError", "RippledError"}

\* reconnectStep without the isConnected test
reconnectStepDisconnect(isConnected) == "disconnect"

\* if (rippleApi.isConnected()) { await rippleApi.disconnect() }
\* await rippleApi.connect(): the first call of the reconnect
reconnectStep(isConnected) == IF isConnected THEN "disconnect" ELSE "connect"

\* the rejection of disconnect or connect passed to retry() when its class
\* is retryable
reconnectFailureRetriedIfRetryable(eName) == eName \in RETRYABLE_ERRORS

\* whether the rejection of `await rippleApi.disconnect()` or `await
\* rippleApi.connect()` starts another attempt: it leaves the catch handler
\* before retry(e) is reached, and promiseRetry retries only what retry threw
reconnectFailureRetried(eName) == FALSE

\* disconnect or connect rejects with e
ReconnectRejects(e) ==
    IF reconnectFailureRetried(e.name) /\ retriesLeft(rt.attempt)
    THEN /\ rt' = [rt EXCEPT !.phase = "call", !.attempt = @ + 1, !.failed = e]
         /\ UNCHANGED <<pc, result>>
    ELSE /\ rt' = [rt EXCEPT !.phase = "done", !.rejected = e, !.failed = e]
         /\ Throw(e.name)

\* retry(e): the next attempt, or the rejection with e when none is left
Retry(e, thrown) ==
    IF retriesLeft(rt.attempt)
    THEN /\ rt' = [rt EXCEPT !.phase = "call", !.attempt = @ + 1, !.thrown = thrown]
         /\ UNCHANGED <<pc, result>>
    ELSE /\ rt' = [rt EXCEPT !.phase = "done", !.thrown = thrown, !.rejected = e]
         /\ Throw(e.name)

\* init(): connect unless connected
InitApi ==
    /\ pc = "idle"
    /\ ~connected
    /\ connected' = TRUE
    /\ UNCHANGED <<account, pc, op, loc, apiLog, result, rt>>

\* destroy(): disconnect if connected
DestroyApi ==
    /\ pc = "idle"
    /\ connected
    /\ connected' = FALSE
    /\ UNCHANGED <<account, pc, op, loc, apiLog, result, rt>>

\* retryIfDisconnected is called: promiseRetry starts attempt 1
RetryIfDisconnected ==
    /\ pc = "idle"
    /\ pc' = "retry"
    /\ op' = [NoOp EXCEPT !.name = "retryIfDisconnected"]
    /\ rt' = [NoRetry EXCEPT !.phase = "call", !.attempt = 1]
    /\ UNCHANGED <<account, connected, loc, apiLog, result>>

\* fn() resolves: so does retryIfDisconnected
FnResolves ==
    /\ pc = "retry" /\ rt.phase = "call"
    /\ apiLog' = Append(apiLog, "fn")
    /\ rt' = [rt EXCEPT !.phase = "done"]
    /\ ReturnTx(NoTx)
    /\ UNCHANGED <<account, connected, op, loc>>

\* fn() rejects with e; a connection error may come with the connection lost
FnRejects ==
    /\ pc = "retry" /\ rt.phase = "call"
    /\ apiLog' = Append(apiLog, "fn")
    /\ \E e \in ErrorValues :
          LET thrown == Append(rt.thrown, e)
          IN  IF ~retryable(eNameOf(e))
              THEN /\ rt' = [rt EXCEPT !.phase = "done", !.thrown = thrown,
                                       !.rejected = ErrorAt(e, rt.attempt)]
                   /\ Throw(e)
                   /\ UNCHANGED connected
              ELSE IF connectionError(eNameOf(e))
              THEN /\ connected' \in {connected, FALSE}
                   /\ rt' = [rt EXCEPT !.thrown = thrown,
                                       !.phase = reconnectStep(connected')]
                   /\ UNCHANGED <<pc, result>>
              ELSE /\ Retry(ErrorAt(e, rt.attempt), thrown)
                   /\ UNCHANGED connected
    /\ UNCHANGED <<account, op, loc>>

\* await rippleApi.disconnect() resolves
Disconnect ==
    /\ pc = "retry" /\ rt.phase = "disconnect"
    /\ apiLog' = Append(apiLog, "disconnect")
    /\ connected' = FALSE
    /\ rt' = [rt EXCEPT !.phase = "connect"]
    /\ UNCHANGED <<account, pc, op, loc, result>>

\* await rippleApi.disconnect() rejects
DisconnectRejects ==
    /\ pc = "retry" /\ rt.phase = "disconnect"
    /\ apiLog' = Append(apiLog, "disconnect")
    /\ \E e \in ReconnectErrors :
          ReconnectRejects(ReconnectErrorAt(e, rt.attempt, "disconnect"))
    /\ UNCHANGED <<account, connected, op, loc>>

\* await rippleApi.connect() resolves, then retry(e)
Connect ==
    /\ pc = "retry" /\ rt.phase = "connect"
    /\ apiLog' = Append(apiLog, "connect")
    /\ connected' = TRUE
    /\ Retry(ErrorAt(rt.thrown[Len(rt.thrown)], rt.attempt), rt.thrown)
    /\ UNCHANGED <<account, op, loc>>

\* await rippleApi.connect() rejects
ConnectRejects ==
    /\ pc = "retry" /\ rt.phase = "connect"
    /\ apiLog' = Append(apiLog, "connect")
    /\ \E e \in ReconnectErrors :
          ReconnectRejects(ReconnectErrorAt(e, rt.attempt, "connect"))
    /\ UNCHANGED <<account, connected, op, loc>>

\* the caller has taken the outcome; retryIfDisconnected is over
ReturnFromRetry ==
    /\ pc = "done"
    /\ pc' = "idle"
    /\ op' = NoOp
    /\ loc' = NoLoc
    /\ apiLog' = <<>>
    /\ result' = NoResult
    /\ rt' = NoRetry
    /\ UNCHANGED <<account, connected>>

NextRetry ==
    \/ InitApi
    \/ DestroyApi
    \/ RetryIfDisconnected
    \/ FnResolves
    \/ FnRejects
    \/ Disconnect
    \/ DisconnectRejects
    \/ Connect
    \/ ConnectRejects
    \/ ReturnFromRetry

SpecRetry == InitBuild /\ [][NextRetry]_vars

(***************************************************************************)
(* getPayport and resolvePayport.                                          *)
(***************************************************************************)
\* an operation returns the payport
ReturnPayport(payport) ==
    /\ pc' = "done"
    /\ result' = [NoResult EXCEPT !.status = "ok", !.payport = payport]

\* the numbers a caller passes as an index: the type of the argument is
\* number, and nothing checks that it is an index >= 0
PayportIndices == -1..MaxIndex

\* the payports a caller passes to resolvePayport
PayportArgs ==
    {NumberArg(n) : n \in PayportIndices}
    \cup {StringArg(a) : a \in {"rEXT", "bad"}}
    \cup {PayportArg(a, e) : a \in {"rEXT", "bad"},
                             e \in {Nil, Str(<<"7">>), Str(<<"x">>)}}

\* getPayport(index)
GetPayport ==
    /\ pc = "idle"
    /\ \E index \in PayportIndices :
          /\ op' = [NoOp EXCEPT !.name = "getPayport", !.from = index]
          /\ ReturnPayport(doGetPayport(index))
    /\ UNCHANGED <<account, connected, loc, apiLog, rt>>

\* resolvePayport(payport)
ResolvePayport ==
    /\ pc = "idle"
    /\ \E payport \in PayportArgs :
          /\ op' = [NoOp EXCEPT !.name = "resolvePayport", !.to = payport]
          /\ IF doResolvePayportError(payport) # ""
             THEN Throw(doResolvePayportError(payport))
             ELSE ReturnPayport(doResolvePayport(payport))
    /\ UNCHANGED <<account, connected, loc, apiLog, rt>>

\* the tag of an adjustment: a number, or undefined
NoTag == [present |-> FALSE, n |-> 0]
Tag(n) == [present |-> TRUE, n |-> n]
Tags == {NoTag} \cup {Tag(n) : n \in 0..MaxIndex}

\* resolveIndexFromAdjustment with the tag returned as it is
resolveIndexFromAdjustmentRawTag(address, tag) ==
    IF address = hotSignatory.address THEN Num(0)
    ELSE IF address = depositSignatory.address
         THEN IF tag.present THEN Num(tag.n) ELSE Num(1)
    ELSE Null

\* resolveIndexFromAdjustment({ address, tag }); `tag || 1` is 1 for an
\* undefined tag and for tag 0
resolveIndexFromAdjustment(address, tag) ==
    IF address = hotSignatory.address THEN Num(0)
    ELSE IF address = depositSignatory.address
         THEN IF tag.present /\ tag.n # 0 THEN Num(tag.n) ELSE Num(1)
    ELSE Null

\* resolveIndexFromAdjustment(adjustment)
ResolveIndexFromAdjustment ==
    /\ pc = "idle"
    /\ \E address \in ValidAddresses, tag \in Tags :
          /\ op' = [NoOp EXCEPT !.name = "resolveIndexFromAdjustment",
                                !.to = PayportArg(address, Nil), !.tag = tag]
          /\ pc' = "done"
          /\ result' = [NoResult EXCEPT !.status = "ok",
                            !.index = resolveIndexFromAdjustment(address, tag)]
    /\ UNCHANGED <<account, connected, loc, apiLog, rt>>

NextPayport == GetPayport \/ ResolvePayport \/ ResolveIndexFromAdjustment \/ Return

SpecPayport == Init /\ [][NextPayport]_vars

(***************************************************************************)
(* validatePayport and isValidPayport of RipplePaymentsUtils.ts, which ask *)
(* the ledger for the settings of the address.                             *)
(***************************************************************************)
\* getPayportValidationMessage with a missing extraId accepted always
payportValidationMessageLenient(payport, requireExtraId) ==
    IF payport.extraId.nil THEN ""
    ELSE IF ~isValidExtraId(payport.extraId) THEN "InvalidExtraId"
    ELSE ""

\* getPayportValidationMessage once the address is valid: the message it
\* returns, "" for undefined
payportValidationMessage(payport, requireExtraId) ==
    IF payport.extraId.nil
    THEN IF requireExtraId THEN "ExtraIdRequired" ELSE ""
    ELSE IF ~isValidExtraId(payport.extraId) THEN "InvalidExtraId"
    ELSE ""

\* validatePayport throws the message, isValidPayport returns whether
\* there is none
ValidationEnds(name, message) ==
    IF name = "validatePayport" /\ message # "" THEN Throw(message)
    ELSE /\ pc' = "done"
         /\ result' = [NoResult EXCEPT !.status = "ok", !.valid = (message = "")]

\* validatePayport(payport) or isValidPayport(payport) is called
ValidatePayport ==
    /\ pc = "idle"
    /\ \E name \in {"validatePayport", "isValidPayport"},
          a \in {"rEXT", "bad"}, e \in {Nil, Str(<<"7">>), Str(<<"x">>)} :
          /\ op' = [NoOp EXCEPT !.name = name, !.to = PayportArg(a, e)]
          /\ IF ~isValidAddress(a) THEN ValidationEnds(name, "InvalidAddress")
             ELSE pc' = "getSettings" /\ UNCHANGED result
    /\ UNCHANGED <<account, connected, loc, apiLog, rt>>

\* rippleApi.getSettings(address) resolves
GetSettings ==
    /\ pc = "getSettings"
    /\ apiLog' = Append(apiLog, "getSettings")
    /\ \E requireDestinationTag \in BOOLEAN :
          /\ loc' = [loc EXCEPT !.requireExtraId = requireDestinationTag]
          /\ ValidationEnds(op.name, payportValidationMessage(op.to, requireDestinationTag))
    /\ UNCHANGED <<account, connected, op, rt>>

\* rippleApi.getSettings(address) rejects: the catch block logs the error
\* and requireExtraId stays false
GetSettingsRejects ==
    /\ pc = "getSettings"
    /\ apiLog' = Append(apiLog, "getSettings")
    /\ loc' = [loc EXCEPT !.requireExtraId = FALSE,
                          !.rejected = Append(@, "getSettings")]
    /\ ValidationEnds(op.name, payportValidationMessage(op.to, FALSE))
    /\ UNCHANGED <<account, connected, op, rt>>

NextValidate ==
    \/ ValidatePayport
    \/ GetSettings
    \/ GetSettingsRejects
    \/ Return

(***************************************************************************)
(* RippleBalanceMonitor.                                                   *)
(***************************************************************************)
\* what a caller passes as options.from and options.to
RangeArgs ==
    {NoRangeArg}
    \cup {LedgerArg(n) : n \in 0..(MaxLedger + 1)}
    \cup {ActivityArg(n) : n \in 0..(MaxLedger + 1)}

\* serverInfo.completeLedgers, 'low-high', parsed: the history window
Windows == {w \in (1..MaxLedger) \X (1..MaxLedger) : w[1] <= w[2]}

\* isUndefined(x) ? undefined : isNumber(x) ? x : x.confirmationNumber
requested(arg) == IF arg.t = "undefined" THEN Null ELSE Num(arg.n)

\* resolveFromToLedgers: the from it returns
resolveFromLedger(requestedFrom, low, high) ==
    IF ~requestedFrom.null /\ ~(requestedFrom.n < low) THEN requestedFrom.n ELSE low

\* resolveFromToLedgers: the to it returns
resolveToLedger(requestedTo, low, high) ==
    IF ~requestedTo.null /\ ~(requestedTo.n > high) THEN requestedTo.n ELSE high

\* String.prototype.startsWith('tes') / ('tec') on a result code
isSuccess(code) == startsWith(code, <<"t", "e", "s">>)
isPartialSuccess(code) == startsWith(code, <<"t", "e", "c">>)

\* padLeft(x, n, v)
RECURSIVE padLeft(_, _, _)
padLeft(x, n, v) == IF Len(x) < n THEN padLeft(<<v>> \o x, n, v) ELSE x

\* activitySequence with the two parts padded to their own length only
activitySequenceUnpadded(ledgerVersion, indexInLedger, type) ==
    String(ledgerVersion) \o <<".">> \o String(indexInLedger) \o <<".">>
        \o (IF type = "out" THEN <<"0", "0">> ELSE <<"0", "1">>)

\* `${primarySequence}.${secondarySequence}.${tertiarySequence}`
activitySequence(ledgerVersion, indexInLedger, type) ==
    padLeft(String(ledgerVersion), 12, "0") \o <<".">>
        \o padLeft(String(indexInLedger), 8, "0") \o <<".">>
        \o (IF type = "out" THEN <<"0", "0">> ELSE <<"0", "1">>)

\* a transaction as the ledger client reports it.  outcome: whether it has
\* an outcome; change: the XRP entry of outcome.balanceChanges for the
\* monitored address, absent or a signed amount
MonitorTx(type, outcome, engineResult, ledgerVersion, indexInLedger, source, destination, destinationTag, change) ==
    [type |-> type, outcome |-> outcome, result |-> engineResult,
     ledgerVersion |-> ledgerVersion, indexInLedger |-> indexInLedger,
     source |-> source, destination |-> destination, sourceTag |-> NoTag,
     destinationTag |-> destinationTag, change |-> change]
NoMonitorTx == MonitorTx("none", FALSE, <<>>, 0, 0, "", "", NoTag, Null)

\* the transactions the ledger client reports for the monitored address
MonitorTxs ==
    {MonitorTx(type, outcome, IF outcome THEN r ELSE <<>>, lv, 0, src, dst, tag, ch) :
        type \in {"payment", "order"}, outcome \in BOOLEAN,
        r \in {tesSUCCESS, tecUNFUNDED, tefPAST_SEQ},
        lv \in 1..MaxLedger, src \in {"rHOT", "rEXT"}, dst \in {"rHOT", "rEXT"},
        tag \in {NoTag, Tag(2)}, ch \in {Null, Num(-1), Num(1)}}

\* what getTransactions returns in the umd bundle, which asks for
\* types: ['payment'] and excludeFailures: true
SuccessfulPayments ==
    {tx \in MonitorTxs : tx.type = "payment" /\ tx.outcome /\ tx.result = tesSUCCESS}

\* a balance activity, and the id of the transaction it was made from
Activity(type, address, extraId, externalId, sequence, confirmationNumber) ==
    [type |-> type, address |-> address, extraId |-> extraId,
     externalId |-> externalId, activitySequence |-> sequence,
     confirmationNumber |-> confirmationNumber]

\* tag of the activity: !isUndefined(tag) ? String(tag) : null
tagToExtraId(tag) == IF tag.present THEN Str(String(tag.n)) ELSE Nil

\* txToBalanceActivity (es bundle): whether it returns null before it asks
\* for the ledger
txSkipped(tx) ==
    \/ ~tx.outcome
    \/ ~(isSuccess(tx.result) \/ isPartialSuccess(tx.result))

\* determineActivityTypes(address, tx) (umd bundle)
determineActivityTypes(address, tx) ==
    (IF tx.source = address THEN <<"out">> ELSE <<>>)
        \o (IF tx.destination = address THEN <<"in">> ELSE <<>>)

\* txToBalanceActivities with no activity made from any transaction
txToBalanceActivitiesNone(b, address, id, tx) == <<>>

\* the activities made from transaction tx once getLedger has resolved:
\* txToBalanceActivity (es bundle: null or one activity, from the balance
\* change), paymentToBalanceActivities (umd bundle: one for each of source
\* and destination that is the address)
txToBalanceActivities(b, address, id, tx) ==
    IF b = "es"
    THEN IF tx.change.null THEN <<>>
         ELSE LET type == IF tx.change.n < 0 THEN "out" ELSE "in"
                  tag == IF tx.type = "payment"
                         THEN IF type = "out" THEN tx.sourceTag ELSE tx.destinationTag
                         ELSE NoTag
              IN  <<Activity(type, address, tagToExtraId(tag), id,
                             activitySequence(tx.ledgerVersion, tx.indexInLedger, type),
                             tx.ledgerVersion)>>
    ELSE LET types == determineActivityTypes(address, tx)
         IN  [k \in 1..Len(types) |->
                Activity(types[k], address,
                         tagToExtraId(IF types[k] = "out" THEN tx.sourceTag
                                      ELSE tx.destinationTag),
                         id,
                         activitySequence(tx.ledgerVersion, tx.indexInLedger, types[k]),
                         tx.ledgerVersion)]

MaxPage == 2    \* a page of getTransactions holds at most MaxPage transactions
MaxPages == 2   \* one retrieval asks for at most MaxPages pages

\* the id of the n-th transaction of the page, and of a pushed transaction
PageTxId(n) == <<"T", "X">> \o String(n)

\* the transactions a page is drawn from.  The es bundle reads neither the
\* source nor the destination address of a transaction, the umd bundle
\* asks for successful payments only and does not read the balance changes
PageTxs(b) ==
    IF b = "es"
    THEN {tx \in MonitorTxs : tx.source = "rEXT" /\ tx.destination = "rHOT"}
    ELSE {tx \in SuccessfulPayments : tx.change.null}

\* what a caller of retrieveBalanceActivities passes as options.from / to
RetrieveFromArgs == {NoRangeArg, LedgerArg(2)}
RetrieveToArgs == {NoRangeArg, ActivityArg(MaxLedger - 1)}

\* resolveFromToLedgers(options) is called (es bundle)
ResolveFromToLedgers ==
    /\ pc = "idle"
    /\ bundle = "es"
    /\ \E from \in RangeArgs, to \in RangeArgs :
          op' = [NoOp EXCEPT !.name = "resolveFromToLedgers",
                             !.rangeFrom = from, !.rangeTo = to]
    /\ pc' = "getServerInfo"
    /\ UNCHANGED <<account, connected, loc, apiLog, result, rt>>

\* retrieveBalanceActivities(address, callbackFn, options) is called
RetrieveBalanceActivities ==
    /\ pc = "idle"
    /\ \E address \in {"rHOT", "bad"}, from \in RetrieveFromArgs, to \in RetrieveToArgs :
          /\ op' = [NoOp EXCEPT !.name = "retrieveBalanceActivities",
                                !.address = address,
                                !.rangeFrom = from, !.rangeTo = to]
          /\ IF ~isValidAddress(address)
             THEN Throw("InvalidAddress") /\ UNCHANGED loc
             ELSE /\ UNCHANGED result
                  /\ IF bundle = "es"
                     THEN pc' = "getServerInfo" /\ UNCHANGED loc
                     ELSE /\ pc' = "getTransactions"
                          /\ loc' = [loc EXCEPT !.from = requested(from).n,
                                                !.to = requested(to).n]
    /\ UNCHANGED <<account, connected, apiLog, rt>>

\* resolveFromToLedgers: rippleApi.getServerInfo resolves
GetServerInfo ==
    /\ pc = "getServerInfo"
    /\ apiLog' = Append(apiLog, "getServerInfo")
    /\ \E w \in Windows :
          LET from == resolveFromLedger(requested(op.rangeFrom), w[1], w[2])
              to == resolveToLedger(requested(op.rangeTo), w[1], w[2])
          IN  IF op.name = "resolveFromToLedgers"
              THEN /\ loc' = [loc EXCEPT !.low = w[1], !.high = w[2]]
                   /\ pc' = "done"
                   /\ result' = [NoResult EXCEPT !.status = "ok",
                                                 !.from = from, !.to = to]
              ELSE /\ loc' = [loc EXCEPT !.from = from, !.to = to]
                   /\ pc' = "getTransactions"
                   /\ UNCHANGED result
    /\ UNCHANGED <<account, connected, op, rt>>

\* resolveFromToLedgers: rippleApi.getServerInfo rejects
GetServerInfoRejects ==
    /\ pc = "getServerInfo"
    /\ apiLog' = Append(apiLog, "getServerInfo")
    /\ Throw("LedgerError")
    /\ loc' = [loc EXCEPT !.rejected = Append(@, "getServerInfo")]
    /\ UNCHANGED <<account, connected, op, rt>>

\* retrieveBalanceActivities: rippleApi.getTransactions resolves to a page
GetTransactions ==
    /\ pc = "getTransactions"
    /\ loc.pages < MaxPages
    /\ apiLog' = Append(apiLog, "getTransactions")
    /\ loc' = [loc EXCEPT !.pages = @ + 1, !.n = 0]
    /\ pc' = "page"
    /\ UNCHANGED <<account, connected, op, result, rt>>

\* retrieveBalanceActivities: rippleApi.getTransactions rejects
GetTransactionsRejects ==
    /\ pc = "getTransactions"
    /\ loc.pages < MaxPages
    /\ apiLog' = Append(apiLog, "getTransactions")
    /\ Throw("LedgerError")
    /\ loc' = [loc EXCEPT !.rejected = Append(@, "getTransactions")]
    /\ UNCHANGED <<account, connected, op, rt>>

\* retrieveBalanceActivities: whether the loop over a page skips tx
outOfRange(b, tx, from, to) ==
    IF b = "es"
    THEN tx.ledgerVersion < from \/ tx.ledgerVersion > to
    ELSE \/ tx.type # "payment"
         \/ (from # 0 /\ tx.ledgerVersion < from)
         \/ (to # 0 /\ tx.ledgerVersion > to)

\* whether the conversion of tx ends before it asks for the ledger
noActivityBeforeLedger(b, address, tx) ==
    IF b = "es" THEN txSkipped(tx)
    ELSE Len(determineActivityTypes(address, tx)) = 0

\* the call goes on after a transaction: to the rest of the page, or, for
\* a pushed transaction, to its end
AfterTx ==
    IF op.name = "retrieveBalanceActivities"
    THEN pc' = "page" /\ UNCHANGED result
    ELSE pc' = "done" /\ result' = [NoResult EXCEPT !.status = "ok"]

\* retrieveBalanceActivities: the page, of fewer transactions than the
\* limit of 10, is at its end; the umd bundle, left without a last
\* transaction by an empty page, asks for the page again
PageEnds ==
    /\ pc = "page"
    /\ IF bundle = "umd" /\ loc.n = 0
       THEN pc' = "getTransactions" /\ UNCHANGED result
       ELSE /\ pc' = "done"
            /\ result' = [NoResult EXCEPT !.status = "ok",
                             !.from = IF bundle = "es" THEN loc.from ELSE 0,
                             !.to = IF bundle = "es" THEN loc.to ELSE 0]
    /\ UNCHANGED <<account, connected, op, loc, apiLog, rt>>

\* retrieveBalanceActivities: the next transaction of the page.  The es
\* bundle reads tx.outcome.ledgerVersion of every transaction of the page
PageTx ==
    /\ pc = "page"
    /\ loc.n < MaxPage
    /\ \E tx \in PageTxs(bundle) :
          IF bundle = "es" /\ ~tx.outcome
          THEN /\ loc' = [loc EXCEPT !.n = @ + 1, !.tx = tx,
                                     !.txId = PageTxId(loc.n + 1), !.yielded = 0]
               /\ Throw("TypeError")
          ELSE
          /\ UNCHANGED result
          /\ IF \/ outOfRange(bundle, tx, loc.from, loc.to)
                \/ noActivityBeforeLedger(bundle, op.address, tx)
             THEN /\ loc' = [loc EXCEPT !.n = @ + 1, !.tx = tx,
                                        !.txId = PageTxId(loc.n + 1), !.yielded = 0]
                  /\ pc' = "page"
             ELSE /\ loc' = [loc EXCEPT !.n = @ + 1, !.tx = tx,
                                        !.txId = PageTxId(loc.n + 1), !.yielded = -1]
                  /\ pc' = "ledgerOfTx"
    /\ UNCHANGED <<account, connected, op, apiLog, rt>>

\* the handler that onBalanceActivity registered gets a pushed transaction
OnTransaction ==
    /\ pc = "idle"
    /\ \E tx \in MonitorTxs :
          /\ op' = [NoOp EXCEPT !.name = "onTransaction", !.address = "rHOT"]
          /\ IF \/ bundle = "umd" /\ tx.type # "payment"
                \/ noActivityBeforeLedger(bundle, "rHOT", tx)
             THEN /\ loc' = [NoLoc EXCEPT !.tx = tx, !.txId = PageTxId(1), !.yielded = 0]
                  /\ pc' = "done"
                  /\ result' = [NoResult EXCEPT !.status = "ok"]
             ELSE IF bundle = "umd" /\ ~tx.outcome
             THEN /\ loc' = [NoLoc EXCEPT !.tx = tx, !.txId = PageTxId(1)]
                  /\ Throw("TypeError")
             ELSE /\ loc' = [NoLoc EXCEPT !.tx = tx, !.txId = PageTxId(1)]
                  /\ pc' = "ledgerOfTx"
                  /\ UNCHANGED result
    /\ UNCHANGED <<account, connected, apiLog, rt>>

\* rippleApi.getLedger resolves: the activities of the transaction are made
GetLedger ==
    /\ pc = "ledgerOfTx"
    /\ apiLog' = Append(apiLog, "getLedger")
    /\ LET activities == txToBalanceActivities(bundle, op.address, loc.txId, loc.tx)
       IN  /\ loc' = [loc EXCEPT !.yielded = Len(activities), !.pending = activities]
           /\ IF Len(activities) = 0 THEN AfterTx
              ELSE pc' = "visit" /\ UNCHANGED result
    /\ UNCHANGED <<account, connected, op, rt>>

\* rippleApi.getLedger rejects
GetLedgerRejects ==
    /\ pc = "ledgerOfTx"
    /\ apiLog' = Append(apiLog, "getLedger")
    /\ Throw("LedgerError")
    /\ loc' = [loc EXCEPT !.rejected = Append(@, "getLedger")]
    /\ UNCHANGED <<account, connected, op, rt>>

\* an entry of loc.visited: the activity callbackFn got, and the outcome
\* and result code of the transaction it was made from
Visited(activity, tx) ==
    [activity |-> activity, outcome |-> tx.outcome, result |-> tx.result]

\* callbackFn(activity) returns
Visit ==
    /\ pc = "visit"
    /\ loc' = [loc EXCEPT !.visited = Append(@, Visited(Head(loc.pending), loc.tx)),
                          !.pending = Tail(@)]
    /\ IF Len(loc.pending) = 1 THEN AfterTx
       ELSE pc' = "visit" /\ UNCHANGED result
    /\ UNCHANGED <<account, connected, op, apiLog, rt>>

\* what callbackFn throws: an error of its own, or one of a class that
\* retryIfDisconnected retries
VisitorErrors == {"VisitorError", "ConnectionError", "TimeoutError"}

\* retryDced wrapped around callbackFn as it is around the ledger calls
visitorErrorRetriedIfRetryable(e) == e \in RETRYABLE_ERRORS

\* whether the loop calls callbackFn again after it threw e: `await
\* callbackFn(activity)` stands outside retryDced and outside any try block
visitorErrorRetried(e) == FALSE

\* callbackFn(activity) throws
VisitThrows ==
    /\ pc = "visit"
    /\ \E e \in VisitorErrors :
          /\ loc' = [loc EXCEPT !.visited = Append(@, Visited(Head(loc.pending), loc.tx)),
                                !.visitorThrew = e]
          /\ IF visitorErrorRetried(e) THEN pc' = "visit" /\ UNCHANGED result
             ELSE Throw(e)
    /\ UNCHANGED <<account, connected, op, apiLog, rt>>

NextMonitor ==
    \/ ResolveFromToLedgers
    \/ RetrieveBalanceActivities
    \/ GetServerInfo
    \/ GetServerInfoRejects
    \/ GetTransactions
    \/ GetTransactionsRejects
    \/ PageEnds
    \/ PageTx
    \/ OnTransaction
    \/ GetLedger
    \/ GetLedgerRejects
    \/ Visit
    \/ VisitThrows
    \/ Return

SpecMonitor == InitBuild /\ [][NextMonitor]_vars

\* tx.outcome.ledgerVersion and tx.outcome.indexInLedger of the
\* transactions whose activitySequence is made
SequenceLedgers == {0, 9, 10, 999999, 1000000, 2147483647}
SequenceIndices == {0, 3, 10, 99999999}
LedgerPositions ==
    {[ledgerVersion |-> lv, indexInLedger |-> i, type |-> t] :
        lv \in SequenceLedgers, i \in SequenceIndices, t \in {"out", "in"}}

\* the activitySequence of a position in the ledger
Sequenced(p) ==
    [ledgerVersion |-> p.ledgerVersion, indexInLedger |-> p.indexInLedger,
     type |-> p.type,
     activitySequence |-> activitySequence(p.ledgerVersion, p.indexInLedger, p.type)]

\* txToBalanceActivity makes the activitySequence of two activities
MakeActivitySequences ==
    /\ pc = "idle"
    /\ \E p \in LedgerPositions, q \in LedgerPositions :
          loc' = [NoLoc EXCEPT !.sequenced = <<Sequenced(p), Sequenced(q)>>]
    /\ op' = [NoOp EXCEPT !.name = "activitySequence"]
    /\ pc' = "done"
    /\ result' = [NoResult EXCEPT !.status = "ok"]
    /\ UNCHANGED <<account, connected, apiLog, rt>>

NextSequence ==
    \/ MakeActivitySequences
    \/ Return

SpecSequence == InitBuild /\ [][NextSequence]_vars

\* every operation that calls the ledger client
NextLedgerCalls ==
    \/ NextBuild
    \/ NextBroadcast
    \/ NextMonitor
    \/ NextValidate

SpecLedgerCalls == InitBuild /\ [][NextLedgerCalls]_vars

(***************************************************************************)
(* The pagination of retrieveBalanceActivities, one step per pass of its   *)
(* while loop: the page asked of the ledger client, the transactions of    *)
(* the page filtered and visited, lastTx set.  loc.history is the history  *)
(* of the address on the ledger, earliest first; a transaction is known by *)
(* its position in the history (its id) and lastTx = 0 is an undefined     *)
(* lastTx; loc.fetched tells that `transactions` is defined.  The ledger   *)
(* client is not part of the sources: a page asked from a cursor starts,   *)
(* for the whole retrieval, either at the cursor transaction               *)
(* (loc.cursorIncluded) or right after it.  In the umd bundle from and to  *)
(* are the options as given, 0 when absent.                                *)
(***************************************************************************)
\* how many transactions of the address one ledger may hold
PerLedger == {0, 1, limit - 1, limit}

\* one retrieval asks for at most MaxFetches pages
MaxFetches == 2 * MaxLedger

RECURSIVE SumTo(_, _)
SumTo(counts, l) == IF l = 0 THEN 0 ELSE counts[l] + SumTo(counts, l - 1)

\* the history with counts[l] transactions in ledger l; the transaction
\* `silent` changes no XRP balance of the address
HistoryOf(counts, silent) ==
    [id \in 1..SumTo(counts, MaxLedger) |->
        [id |-> id,
         ledgerVersion |->
            CHOOSE l \in 1..MaxLedger : SumTo(counts, l - 1) < id /\ id <= SumTo(counts, l),
         yields |-> id # silent]]

\* the first n elements of a sequence
Take(seq, n) == SubSeq(seq, 1, IF Len(seq) < n THEN Len(seq) ELSE n)

\* rippleApi.getTransactions(address, getTransactionOptions): without
\* lastTx, the first `limit` transactions of [minLedgerVersion,
\* maxLedgerVersion]; with lastTx, the first `limit` from the cursor on
getTransactions(history, lastTx, minLedgerVersion, maxLedgerVersion, cursorIncluded) ==
    Take(SelectSeq(history, LAMBDA tx :
            IF lastTx = 0
            THEN /\ (minLedgerVersion # 0 => tx.ledgerVersion >= minLedgerVersion)
                 /\ (maxLedgerVersion # 0 => tx.ledgerVersion <= maxLedgerVersion)
            ELSE IF cursorIncluded THEN tx.id >= lastTx ELSE tx.id > lastTx),
         limit)

\* the ledger version of lastTx
lastLedgerVersion(history, lastTx) == history[lastTx].ledgerVersion

\* the condition of the while loop
pageLoopContinues(b, history, fetched, transactions, lastTx, to) ==
    IF b = "es"
    THEN \/ ~fetched
         \/ /\ Len(transactions) = limit
            /\ lastTx # 0
            /\ lastLedgerVersion(history, lastTx) <= to
    ELSE \/ lastTx = 0
         \/ ~fetched
         \/ /\ Len(transactions) = limit
            /\ (to # 0 => lastLedgerVersion(history, lastTx) <= to)

\* the `continue` of the for loop
pageTxSkipped(b, lastTx, tx, from, to) ==
    IF b = "es"
    THEN \/ (lastTx # 0 /\ tx.id = lastTx)
         \/ tx.ledgerVersion < from
         \/ tx.ledgerVersion > to
    ELSE \/ (lastTx # 0 /\ tx.id = lastTx)
         \/ (from # 0 /\ tx.ledgerVersion < from)
         \/ (to # 0 /\ tx.ledgerVersion > to)

\* the ids of the transactions of a page whose activity is visited, in order
pageVisits(b, lastTx, transactions, from, to) ==
    LET kept == SelectSeq(transactions,
                    LAMBDA tx : ~pageTxSkipped(b, lastTx, tx, from, to) /\ tx.yields)
    IN  [k \in 1..Len(kept) |-> kept[k].id]

\* lastTx = transactions[transactions.length - 1]
lastOf(transactions) ==
    IF Len(transactions) = 0 THEN 0 ELSE transactions[Len(transactions)].id

\* the ranges of a retrieval: resolved from the window of the server in the
\* es bundle, the options as given in the umd bundle
PageRanges(b) ==
    {r \in ((IF b = "es" THEN {} ELSE {0}) \cup {1, 2}) \X
            ((IF b = "es" THEN {} ELSE {0}) \cup {MaxLedger - 1, MaxLedger}) : TRUE}

\* retrieveBalanceActivities(address, callbackFn, options), up to the loop
RetrievePages ==
    /\ pc = "idle"
    /\ \E counts \in [1..MaxLedger -> PerLedger], silent \in {0, 1, limit},
          r \in PageRanges(bundle), cursorIncluded \in BOOLEAN :
          /\ op' = [NoOp EXCEPT !.name = "retrieveBalanceActivities", !.address = "rHOT"]
          /\ loc' = [NoLoc EXCEPT !.history = HistoryOf(counts, silent),
                                  !.from = r[1], !.to = r[2],
                                  !.cursorIncluded = cursorIncluded]
    /\ pc' = "page"
    /\ apiLog' = <<>>
    /\ UNCHANGED <<account, connected, result, rt>>

\* one pass of the while loop
NextPage ==
    /\ pc = "page"
    /\ loc.pages < MaxFetches
    /\ pageLoopContinues(bundle, loc.history, loc.fetched, loc.transactions, loc.lastTx, loc.to)
    /\ LET transactions == getTransactions(loc.history, loc.lastTx, loc.from, loc.to,
                                           loc.cursorIncluded)
       IN  loc' = [loc EXCEPT
                     !.pages = @ + 1,
                     !.fetched = TRUE,
                     !.transactions = transactions,
                     !.visited = @ \o pageVisits(bundle, loc.lastTx, transactions,
                                                 loc.from, loc.to),
                     !.lastTx = lastOf(transactions)]
    /\ UNCHANGED <<account, connected, pc, op, apiLog, result, rt>>

\* the while loop ends: return { from, to }
PagesEnd ==
    /\ pc = "page"
    /\ ~pageLoopContinues(bundle, loc.history, loc.fetched, loc.transactions, loc.lastTx, loc.to)
    /\ pc' = "done"
    /\ result' = [NoResult EXCEPT !.status = "ok", !.from = loc.from, !.to = loc.to]
    /\ UNCHANGED <<account, connected, op, loc, apiLog, rt>>

NextPages ==
    \/ RetrievePages
    \/ NextPage
    \/ PagesEnd
    \/ Return

SpecPages == InitBuild /\ [][NextPages]_vars

(***************************************************************************)
(* getBalance(payportOrIndex).                                             *)
(***************************************************************************)
\* getBalance, up to the balance query
GetBalance ==
    /\ pc = "idle"
    /\ \E payportOrIndex \in PayportArgs :
          /\ op' = [NoOp EXCEPT !.name = "getBalance", !.to = payportOrIndex]
          /\ IF doResolvePayportError(payportOrIndex) # ""
             THEN Throw(doResolvePayportError(payportOrIndex))
             ELSE IF ~isNil(doResolvePayport(payportOrIndex).extraId)
             THEN Throw("BalanceOfExtraId")
             ELSE pc' = "getBalances" /\ UNCHANGED result
    /\ loc' = NoLoc
    /\ apiLog' = <<>>
    /\ UNCHANGED <<account, connected, rt>>

\* rippleApi.getBalances(address) resolves
GetBalances ==
    /\ pc = "getBalances"
    /\ apiLog' = Append(apiLog, "getBalances")
    /\ \E balances \in BalanceLists :
          /\ loc' = [loc EXCEPT !.queried = Append(@, xrpAmount(balances))]
          /\ result' = [NoResult EXCEPT !.status = "ok",
                                        !.balance = getBalance(bundle, balances)]
    /\ pc' = "done"
    /\ UNCHANGED <<account, connected, op, rt>>

\* rippleApi.getBalances(address) rejects
GetBalancesRejects ==
    /\ pc = "getBalances"
    /\ apiLog' = Append(apiLog, "getBalances")
    /\ Throw("LedgerError")
    /\ loc' = [loc EXCEPT !.rejected = Append(@, "getBalances")]
    /\ UNCHANGED <<account, connected, op, rt>>

NextBalance ==
    \/ GetBalance
    \/ GetBalances
    \/ GetBalancesRejects
    \/ Return

SpecBalance == InitBuild /\ [][NextBalance]_vars

(***************************************************************************)
(* Live delivery: the handler onBalanceActivity registers is called once   *)
(* for each transaction the ledger client pushes, in the order of the      *)
(* pushes, and runs up to its first await; the handlers of several         *)
(* transactions are then in flight together, each waiting for its own      *)
(* getLedger.  loc.live holds one entry per pushed transaction, the n-th   *)
(* pushed being transaction n; loc.resolved lists the transactions in the  *)
(* order in which their getLedger resolved, loc.visited in the order in    *)
(* which callbackFn got their activity.                                    *)
(***************************************************************************)
\* what becomes of a pushed transaction: "skipped" returns before getLedger
\* (es: no outcome, or a result code that is neither tes nor tec; umd: not a
\* payment, or not concerning the address), "silent" yields no activity
\* after getLedger (es: no XRP balance change), "activity" yields one
LiveKinds(b) == IF b = "es" THEN {"skipped", "silent", "activity"} ELSE {"skipped", "activity"}

\* the handler of transaction n, at its first await
LiveHandler(n, kind) ==
    [n |-> n, kind |-> kind, attempt |-> 1,
     phase |-> IF kind = "skipped" THEN "done" ELSE "getLedger"]

\* liveDelivers with an activity made from every transaction
liveDeliversAlways(kind) == TRUE

\* if (activity) { callbackFn(activity) }
liveDelivers(kind) == kind = "activity"

\* onBalanceActivity(callbackFn)
OnBalanceActivity ==
    /\ pc = "idle"
    /\ pc' = "live"
    /\ op' = [NoOp EXCEPT !.name = "onBalanceActivity"]
    /\ loc' = NoLoc
    /\ UNCHANGED <<account, connected, apiLog, result, rt>>

\* the connection emits 'transaction'
LiveTransaction ==
    /\ pc = "live"
    /\ Len(loc.live) < MaxLive
    /\ \E kind \in LiveKinds(bundle) :
          loc' = [loc EXCEPT !.live = Append(@, LiveHandler(Len(loc.live) + 1, kind))]
    /\ UNCHANGED <<account, connected, pc, op, apiLog, result, rt>>

\* the getLedger of one of the handlers resolves; the handler goes on to
\* its end
LiveGetLedger ==
    /\ pc = "live"
    /\ \E i \in 1..Len(loc.live) :
          /\ loc.live[i].phase = "getLedger"
          /\ loc' = [loc EXCEPT
                       !.live[i].phase = "done",
                       !.resolved = Append(@, i),
                       !.visited = IF liveDelivers(loc.live[i].kind)
                                   THEN Append(@, i) ELSE @]
    /\ UNCHANGED <<account, connected, pc, op, apiLog, result, rt>>

\* the getLedger of one of the handlers rejects with a retryable error and
\* retryDced calls it again (es bundle)
LiveGetLedgerRetried ==
    /\ pc = "live"
    /\ bundle = "es"
    /\ \E i \in 1..Len(loc.live) :
          /\ loc.live[i].phase = "getLedger"
          /\ retriesLeft(loc.live[i].attempt)
          /\ loc' = [loc EXCEPT !.live[i].attempt = @ + 1]
    /\ UNCHANGED <<account, connected, pc, op, apiLog, result, rt>>

\* the getLedger of one of the handlers rejects for good: the promise of
\* the handler rejects and callbackFn is not called
LiveGetLedgerRejects ==
    /\ pc = "live"
    /\ \E i \in 1..Len(loc.live) :
          /\ loc.live[i].phase = "getLedger"
          /\ loc' = [loc EXCEPT !.live[i].phase = "rejected"]
    /\ UNCHANGED <<account, connected, pc, op, apiLog, result, rt>>

NextLive ==
    \/ OnBalanceActivity
    \/ LiveTransaction
    \/ LiveGetLedger
    \/ LiveGetLedgerRetried
    \/ LiveGetLedgerRejects

SpecLive == InitBuild /\ [][NextLive]_vars

(***************************************************************************)
(* Properties of createTransaction and createSweepTransaction (SpecBuild). *)
(***************************************************************************)
BuildCall == op.name \in {"createTransaction", "createSweepTransaction"}
BuildSucceeded == BuildCall /\ pc = "done" /\ result.status = "ok"
Called(method) == \E i \in 1..Len(apiLog) : apiLog[i] = method
FromSubAccount == ~isNil(loc.fromTo.fromExtraId)
\* the XRP amount the last, and the first, balance query of the call reported
LastQueried == loc.queried[Len(loc.queried)]
FirstQueried == loc.queried[1]
TotalValue(tx) == bnPlus(tx.amount, Fin(tx.fee))

\* C1: a build that succeeds leaves the reserve on the source address: amount
\* + fee is at most the XRP balance reported by the last balance query before
\* preparePayment, less the 20 XRP reserve.
C1_ReserveKept ==
    (BuildCall /\ (pc = "preparePayment" \/ BuildSucceeded)) =>
        /\ Len(loc.queried) > 0
        /\ bnIsFinite(loc.amount)
        /\ loc.amount.v + loc.feeOption.feeMain <= LastQueried - MIN_BALANCE
        /\ BuildSucceeded =>
              /\ result.tx.amount = loc.amount
              /\ result.tx.fee = loc.feeOption.feeMain
              /\ LastQueried - result.tx.amount.v - result.tx.fee >= MIN_BALANCE

\* a build succeeded that takes the source address down to exactly the reserve
C1_Witness ==
    /\ BuildSucceeded
    /\ LastQueried - result.tx.amount.v - result.tx.fee = MIN_BALANCE

\* C2: a build from a sub-account payport succeeds only if options.payportBalance
\* was supplied and amount + fee <= payportBalance; when it is absent the build
\* fails with the missing-payportBalance error (it is not taken as zero) and
\* neither a balance query nor preparePayment is made.
C2_PayportBalanceRequired ==
    (BuildCall /\ FromSubAccount) =>
        /\ loc.fromTo.fromIndex >= 2
        /\ BuildSucceeded =>
              /\ op.options.payportBalance.t = "string"
              /\ bnLte(TotalValue(result.tx), op.options.payportBalance.v)
        /\ op.options.payportBalance.t = "undefined" =>
              /\ pc = "done"
              /\ result.status = "error"
              /\ result.error = "MissingPayportBalance"
              /\ ~Called("getBalances")
              /\ ~Called("preparePayment")

\* a build from a sub-account payport succeeded that spends exactly the
\* payport balance the caller supplied
C2_Witness ==
    /\ BuildSucceeded
    /\ FromSubAccount
    /\ op.options.payportBalance.t = "string"
    /\ TotalValue(result.tx) = op.options.payportBalance.v

\* the balance createSweepTransaction sweeps: the reserve-adjusted balance of
\* the resolvePayportBalance query, or the payportBalance the caller supplied
SweepBalance ==
    IF FromSubAccount THEN op.options.payportBalance.v
    ELSE Fin(FirstQueried - MIN_BALANCE)
SweepBalanceKnown ==
    IF FromSubAccount
    THEN op.options.payportBalance.t = "string" /\ ~bnIsNaN(op.options.payportBalance.v)
    ELSE Len(loc.queried) > 0

\* C3: createSweepTransaction sends amount = payportBalance - fee, payportBalance
\* being the reserve-adjusted queried balance of a bare address or the supplied
\* payportBalance of a sub-account; when payportBalance < fee it fails with an
\* insufficient-balance error and never calls preparePayment.
C3_SweepAmount ==
    (op.name = "createSweepTransaction" /\ SweepBalanceKnown) =>
        /\ pc \in {"doCreateTransaction", "getBalance", "preparePayment"} =>
              loc.amount = bnMinus(SweepBalance, Fin(loc.feeOption.feeMain))
        /\ BuildSucceeded =>
              result.tx.amount = bnMinus(SweepBalance, Fin(loc.feeOption.feeMain))
        /\ bnLt(SweepBalance, Fin(loc.feeOption.feeMain)) =>
              /\ pc \in {"amount", "done"}
              /\ ~Called("preparePayment")
              /\ pc = "done" =>
                    /\ result.status = "error"
                    /\ result.error \in {"InsufficientBalanceToSweep",
                                         "InsufficientBalanceToSweepAboveReserve"}

\* a sweep of a bare address succeeded
C3_Witness ==
    /\ BuildSucceeded
    /\ op.name = "createSweepTransaction"
    /\ ~FromSubAccount
    /\ bnGt(result.tx.amount, Fin(0))

\* C4: createTransaction rejects an amount that is not finite or not > 0 with
\* the invalid-amount error: once the payports, the fee and the payport
\* balance are resolved, the amount validation of doCreateTransaction ends the
\* call with that error, before any further balance query or preparePayment.
AmountAcceptable(amount) == bnIsFinite(amount) /\ bnGt(amount, Fin(0))
C4_InvalidAmountRejected ==
    (op.name = "createTransaction" /\ ~AmountAcceptable(op.amount)) =>
        /\ pc \notin {"getBalance", "preparePayment"}
        /\ ~Called("preparePayment")
        /\ (pc = "done" /\ result.error \in {"InvalidAmount", "SelfSend",
                "InsufficientReserve", "InsufficientBalance",
                "InsufficientPayportBalance"}) => result.error = "InvalidAmount"

\* C5: a build whose resolved source and destination address are equal never
\* gets past the self-send check: it makes no balance query of
\* doCreateTransaction and no preparePayment, and it never succeeds.
C5_NoSelfSend ==
    (BuildCall /\ pc # "idle" /\ loc.fromTo.fromAddress = loc.fromTo.toAddress) =>
        /\ pc \notin {"getBalance", "preparePayment"}
        /\ ~Called("preparePayment")
        /\ pc = "done" => result.status = "error"

(***************************************************************************)
(* Properties of signTransaction (SpecSign).                               *)
(***************************************************************************)
SignCall == op.name = "signTransaction" /\ pc # "idle"
Count(method) == Cardinality({i \in 1..Len(apiLog) : apiLog[i] = method})
HoldsKey(signatory) == signatory.secret.priv # ""

\* C6 (as the code has it): the account is read-only as soon as one of its
\* two signatories holds no key, and signTransaction then fails with the
\* read-only error without signing, whichever address the transaction is
\* from; otherwise it signs with the hot secret when fromAddress is the hot
\* address, else with the deposit secret when it is the deposit address, and
\* returns the transaction Signed when sign returns; a fromAddress that is
\* neither fails with another error.
C6_SignOrReadOnly ==
    /\ readOnly <=> (~HoldsKey(hotSignatory) \/ ~HoldsKey(depositSignatory))
    /\ SignCall =>
          /\ readOnly =>
                /\ pc = "done"
                /\ result.status = "error" /\ result.error = "ReadOnly"
                /\ ~Called("sign")
          /\ (~readOnly /\ pc = "done"
                /\ op.tx.fromAddress = hotSignatory.address) =>
                /\ Count("sign") = 1
                /\ loc.secret = hotSignatory.secret
          /\ (~readOnly /\ pc = "done"
                /\ op.tx.fromAddress # hotSignatory.address
                /\ op.tx.fromAddress = depositSignatory.address) =>
                /\ Count("sign") = 1
                /\ loc.secret = depositSignatory.secret
          /\ (~readOnly /\ pc = "done"
                /\ op.tx.fromAddress # hotSignatory.address
                /\ op.tx.fromAddress # depositSignatory.address) =>
                /\ result.status = "error"
                /\ result.error = "CannotSignFromAddress"
                /\ ~Called("sign")
          /\ (pc = "done" /\ result.status = "ok") =>
                /\ result.tx.status = "signed"
                /\ result.tx.id \in TxIds
                /\ result.tx.fromAddress = op.tx.fromAddress
                /\ HoldsKey([secret |-> loc.secret])

\* signing a transaction from the hot address, whose signatory holds a key,
\* failed with the read-only error because the deposit signatory holds none
C6_Witness ==
    /\ SignCall /\ pc = "done"
    /\ result.error = "ReadOnly"
    /\ op.tx.fromAddress = hotSignatory.address
    /\ HoldsKey(hotSignatory)
    /\ ~HoldsKey(depositSignatory)

\* C6 as stated: signTransaction fails with the read-only error if neither
\* signatory holds a key; if the signatory whose address is fromAddress holds
\* one, whatever the other holds, sign is called with that signatory's secret
\* and a returned transaction is Signed.
C6_AsStated ==
    (SignCall /\ pc = "done") =>
        LET signatory == IF op.tx.fromAddress = hotSignatory.address
                         THEN hotSignatory ELSE depositSignatory
        IN  /\ (~HoldsKey(hotSignatory) /\ ~HoldsKey(depositSignatory)) =>
                  result.error = "ReadOnly"
            /\ (signatory.address = op.tx.fromAddress /\ HoldsKey(signatory)) =>
                  /\ Called("sign")
                  /\ loc.secret = signatory.secret
                  /\ result.status = "ok" => result.tx.status = "signed"

(***************************************************************************)
(* Properties of broadcastTransaction (SpecBroadcast).                     *)
(***************************************************************************)
BroadcastCall == op.name = "broadcastTransaction" /\ pc # "idle"
SuccessCode(code) == Len(code) >= 3 /\ code[1] = "t" /\ code[2] = "e" /\ code[3] = "s"

\* the lookup first, then one submit, whatever the lookup's outcome; a failed
\* lookup leaves rebroadcast false; rebroadcast is true exactly when the
\* lookup returned a transaction with the same id
LookupThenSubmit ==
    /\ pc = "submit" => loc.lookup \in {"failed", "returned"}
    /\ Called("submit") => pc = "done"
    /\ pc = "done" =>
          /\ apiLog[1] = "getTransaction"
          /\ Count("getTransaction") = 1
          /\ Count("submit") = 1
          /\ apiLog[Len(apiLog)] = "submit"
          /\ loc.lookup \in {"failed", "returned"}
    /\ loc.rebroadcast <=> (loc.lookup = "returned" /\ loc.existingId = op.tx.id)
    /\ (pc = "done" /\ result.status = "ok") =>
          /\ result.tx.id = op.tx.id
          /\ result.tx.rebroadcast = loc.rebroadcast

\* C7 (as the code has it): broadcastTransaction looks the id up and then
\* always calls submit; a lookup failure never fails the broadcast and leaves
\* rebroadcast false; rebroadcast is true exactly when the lookup returned
\* the same id; the broadcast fails exactly when submit itself rejects or the
\* result code (engine_result, else resultCode, else '') does not start with
\* 'tes'.
C7_BroadcastOutcome ==
    BroadcastCall =>
        /\ LookupThenSubmit
        /\ pc = "done" =>
              /\ loc.submitted \in {"resolved", "rejected"}
              /\ result.status = "error" <=>
                    \/ loc.submitted = "rejected"
                    \/ ~SuccessCode(loc.resultCode)
              /\ (loc.submitted = "resolved" /\ ~SuccessCode(loc.resultCode)) =>
                    result.error = "BroadcastFailed"

\* a broadcast failed because submit itself rejected, after a lookup that
\* returned the same id
C7_Witness ==
    /\ BroadcastCall /\ pc = "done"
    /\ loc.lookup = "returned" /\ loc.rebroadcast
    /\ loc.submitted = "rejected"
    /\ result.status = "error"

\* C7 as stated: the same, but the broadcast fails exactly when submit
\* returned a result code that does not start with 'tes'.
C7_AsStated ==
    BroadcastCall =>
        /\ LookupThenSubmit
        /\ pc = "done" =>
              (result.status = "error" <=>
                  (loc.submitted = "resolved" /\ ~SuccessCode(loc.resultCode)))

(***************************************************************************)
(* Properties of retryIfDisconnected (SpecRetry).                          *)
(***************************************************************************)
RetryCall == op.name = "retryIfDisconnected"
Fatal(e) ==
    e \notin {"ConnectionError", "NotConnectedError", "DisconnectedError", "TimeoutError"}
LastThrown == rt.thrown[Len(rt.thrown)]

\* C8: when every call of the operation threw a connection error and
\* retryIfDisconnected gave up, rejecting with the last error the operation
\* threw, rippleApi.connect was called exactly 3 times.
C8_ThreeReconnects ==
    (/\ RetryCall /\ pc = "done"
     /\ Len(rt.thrown) > 0
     /\ \A i \in 1..Len(rt.thrown) : rt.thrown[i] \in CONNECTION_ERRORS
     /\ rt.rejected = ErrorAt(LastThrown, Len(rt.thrown))) =>
        Count("connect") = 3

\* C9: once the operation throws a fatal error (null included),
\* retryIfDisconnected rejects with that very error, with no connect or
\* disconnect after the throw and no further call of the operation; when the
\* first call throws it, the operation was called once and neither connect nor
\* disconnect at all.
C9_FatalOnce ==
    (RetryCall /\ Len(rt.thrown) > 0 /\ Fatal(LastThrown)) =>
        /\ pc = "done"
        /\ result.status = "error"
        /\ result.error = LastThrown
        /\ rt.rejected = ErrorAt(LastThrown, Len(rt.thrown))
        /\ Count("fn") = Len(rt.thrown)
        /\ apiLog[Len(apiLog)] = "fn"
        /\ Len(rt.thrown) = 1 => apiLog = <<"fn">>

\* the operation rejected with null at its first call
C9_Witness ==
    /\ RetryCall /\ pc = "done"
    /\ rt.thrown = <<"null">>
    /\ apiLog = <<"fn">>
    /\ rt.rejected = ErrorAt("null", 1)

(***************************************************************************)
(* Properties of getPayport and resolvePayport (SpecPayport).              *)
(***************************************************************************)
DigitValue(c) == CHOOSE d \in 0..9 : DigitChars[d + 1] = c
RECURSIVE DecimalValue(_)
DecimalValue(str) ==
    IF Len(str) = 0 THEN 0
    ELSE 10 * DecimalValue(SubSeq(str, 1, Len(str) - 1)) + DigitValue(str[Len(str)])
\* str is the decimal numeral of n
IsDecimalOf(str, n) ==
    /\ Len(str) > 0
    /\ \A i \in 1..Len(str) : str[i] \in Digits
    /\ Len(str) > 1 => str[1] # "0"
    /\ DecimalValue(str) = n
NumericPayportCall ==
    /\ pc = "done"
    /\ op.name = "getPayport" \/ (op.name = "resolvePayport" /\ op.to.t = "number")
PayportIndex == IF op.name = "getPayport" THEN op.from ELSE op.to.n

\* C10: getPayport and resolvePayport of a numeric index return the hot
\* address without extraId for 0, the deposit address without extraId for 1,
\* and the deposit address with the decimal numeral of the index as extraId
\* for every index >= 2.
C10_PayportOfIndex ==
    NumericPayportCall =>
        /\ result.status = "ok"
        /\ PayportIndex = 0 =>
              /\ result.payport.address = hotSignatory.address
              /\ isNil(result.payport.extraId)
        /\ PayportIndex = 1 =>
              /\ result.payport.address = depositSignatory.address
              /\ isNil(result.payport.extraId)
        /\ PayportIndex >= 2 =>
              /\ result.payport.address = depositSignatory.address
              /\ ~isNil(result.payport.extraId)
              /\ IsDecimalOf(result.payport.extraId.s, PayportIndex)

\* resolvePayport returned the payport of a two-digit index
C10_Witness ==
    /\ NumericPayportCall
    /\ op.name = "resolvePayport"
    /\ PayportIndex >= 10
    /\ Len(result.payport.extraId.s) = 2

\* C11: whatever resolvePayport is given (a number, a string, a payport
\* object), a payport it returns has an address that matches the address
\* pattern and an extraId that is absent or a string of decimal digits.
C11_ResolvedPayportValid ==
    (op.name = "resolvePayport" /\ pc = "done" /\ result.status = "ok") =>
        /\ isValidAddress(result.payport.address)
        /\ isNil(result.payport.extraId) \/ isValidExtraId(result.payport.extraId)

IndexCall == op.name = "resolveIndexFromAdjustment" /\ pc = "done"

\* C12 (as the code has it): resolveIndexFromAdjustment returns 0 for the hot
\* address; otherwise, for the deposit address, the tag when there is one
\* and it is not 0, and 1 when the tag is absent or 0; otherwise null.
C12_IndexOfAdjustment ==
    IndexCall =>
        LET address == op.to.address
            tag == op.tag
        IN  /\ address = hotSignatory.address => result.index = Num(0)
            /\ (address # hotSignatory.address
                  /\ address = depositSignatory.address) =>
                  /\ (tag.present /\ tag.n # 0) => result.index = Num(tag.n)
                  /\ (~tag.present \/ tag.n = 0) => result.index = Num(1)
            /\ (address # hotSignatory.address
                  /\ address # depositSignatory.address) => result.index = Null

\* the deposit address with tag 0 resolved to index 1
C12_Witness ==
    /\ IndexCall
    /\ op.to.address = depositSignatory.address
    /\ op.to.address # hotSignatory.address
    /\ op.tag = Tag(0)
    /\ result.index = Num(1)

\* C12 as stated: 0 for the hot address, otherwise the tag (1 when the tag is
\* absent) for the deposit address, otherwise null.
C12_AsStated ==
    IndexCall =>
        LET address == op.to.address
            tag == op.tag
        IN  /\ address = hotSignatory.address => result.index = Num(0)
            /\ (address # hotSignatory.address
                  /\ address = depositSignatory.address) =>
                  result.index = IF tag.present THEN Num(tag.n) ELSE Num(1)
            /\ (address # hotSignatory.address
                  /\ address # depositSignatory.address) => result.index = Null

TieredCall ==
    BuildCall /\ op.options.feeLevel \in {"undefined", "low", "medium", "high"}
FeeResolved == pc \notin {"idle", "resolveFeeOption"} /\ loc.feeOption # NoFee

\* C13: in tiered mode resolveFeeOption asks the ledger client for the fee
\* with cushion 1 for low, 1.2 for medium and for an absent level, 1.5 for
\* high, and with no other cushion; the fee it returns is what getFee
\* resolved to, of rate type main, with feeBase that fee in drops.
C13_TieredCushion ==
    TieredCall =>
        /\ Count("getFee") = 1
        /\ apiLog[1] = "getFee"
        /\ loc.cushion \in {"1", "1.2", "1.5"}
        /\ op.options.feeLevel = "low" => loc.cushion = "1"
        /\ op.options.feeLevel \in {"medium", "undefined"} => loc.cushion = "1.2"
        /\ op.options.feeLevel = "high" => loc.cushion = "1.5"
        /\ FeeResolved =>
              /\ loc.feeOption.targetFeeRateType = "main"
              /\ loc.feeOption.targetFeeRate = loc.feeOption.feeMain
              /\ loc.feeOption.feeBase = loc.feeOption.feeMain * 1000000
              /\ loc.feeOption.targetFeeLevel =
                    IF op.options.feeLevel = "undefined" THEN "medium"
                    ELSE op.options.feeLevel

\* a build without feeLevel got its fee with the cushion of medium
C13_Witness ==
    /\ TieredCall /\ FeeResolved
    /\ op.options.feeLevel = "undefined"
    /\ loc.cushion = "1.2"
    /\ loc.feeOption.targetFeeLevel = "medium"

RangeResolved ==
    op.name = "resolveFromToLedgers" /\ pc = "done" /\ result.status = "ok"

\* C14: the from and the to that resolveFromToLedgers returns both lie in
\* the history window [low, high] of the server, whatever was requested: an
\* omitted endpoint is the window's endpoint, and so is a requested
\* endpoint outside the window.
C14_RangeWithinWindow ==
    RangeResolved =>
        /\ loc.low <= result.from /\ result.from <= loc.high
        /\ loc.low <= result.to /\ result.to <= loc.high
        /\ op.rangeFrom.t = "undefined" => result.from = loc.low
        /\ op.rangeTo.t = "undefined" => result.to = loc.high


\* a retrieval has dealt with the transaction loc.tx of a page: it skipped
\* it, or made its activities
HistoricalTxDone ==
    /\ op.name = "retrieveBalanceActivities"
    /\ loc.tx.type # "none"
    /\ loc.yielded >= 0

\* the transaction at hand lies in the range of the retrieval
HistoricalTxInRange ==
    IF bundle = "es"
    THEN loc.from <= loc.tx.ledgerVersion /\ loc.tx.ledgerVersion <= loc.to
    ELSE /\ loc.from = 0 \/ loc.from <= loc.tx.ledgerVersion
         /\ loc.to = 0 \/ loc.tx.ledgerVersion <= loc.to

\* the records a historical transaction yields
HistoricalTxRecords ==
    IF bundle = "es"
    THEN IF /\ loc.tx.outcome
            /\ HistoricalTxInRange
            /\ loc.tx.result \in {tesSUCCESS, tecUNFUNDED}
            /\ ~loc.tx.change.null
         THEN 1 ELSE 0
    ELSE IF loc.tx.type = "payment" /\ HistoricalTxInRange
         THEN (IF loc.tx.source = op.address THEN 1 ELSE 0)
              + (IF loc.tx.destination = op.address THEN 1 ELSE 0)
         ELSE 0

\* C15 (amended): a historical transaction yields, in the es bundle, one
\* activity record when it lies in the range, its result code starts with
\* 'tes' or 'tec' and it changed the XRP balance of the monitored address,
\* and no record otherwise; in the umd bundle one record for each of the
\* source and the destination of the payment that is the monitored address
C15_RecordsPerTx == HistoricalTxDone => loc.yielded = HistoricalTxRecords

\* a transaction of a page has yielded exactly one record, and the visitor
\* has got it
C15_Witness ==
    /\ bundle = "es"
    /\ HistoricalTxDone
    /\ loc.yielded = 1
    /\ pc = "page"
    /\ Len(loc.visited) = 1

\* C15 as stated: a historical transaction yields 0 or 2 records, never 1
C15_AsStated == HistoricalTxDone => loc.yielded \in {0, 2}

\* C16: an activity is delivered, to the visitor of retrieveBalanceActivities
\* or to the callback of onBalanceActivity, only for a transaction that has
\* an outcome whose result code starts with 'tes' or 'tec'
C16_FailedTxNoActivity ==
    \A k \in 1..Len(loc.visited) :
        /\ loc.visited[k].outcome
        /\ \/ isSuccess(loc.visited[k].result)
           \/ isPartialSuccess(loc.visited[k].result)


\* the code unit of a character of an activitySequence: '.' sorts before
\* the digits
CharCode(c) == IF c = "." THEN 46 ELSE 48 + DigitValue(c)

\* s sorts before t as a string (s and t of the characters above)
RECURSIVE LexLess(_, _)
LexLess(s, t) ==
    IF Len(t) = 0 THEN FALSE
    ELSE IF Len(s) = 0 THEN TRUE
    ELSE IF s[1] # t[1] THEN CharCode(s[1]) < CharCode(t[1])
    ELSE LexLess(Tail(s), Tail(t))

\* a comes before b by ledger version, then index, then out before in
PositionLess(a, b) ==
    \/ a.ledgerVersion < b.ledgerVersion
    \/ /\ a.ledgerVersion = b.ledgerVersion
       /\ \/ a.indexInLedger < b.indexInLedger
          \/ /\ a.indexInLedger = b.indexInLedger
             /\ a.type = "out"
             /\ b.type = "in"

\* str is n in decimal, padded with zeros to exactly width digits
IsPaddedDecimalOf(str, n, width) ==
    /\ Len(str) = width
    /\ \A i \in 1..width : str[i] \in Digits
    /\ DecimalValue(str) = n

\* seq is the activitySequence the spec gives to the position a
WellFormedSequence(a) ==
    LET seq == a.activitySequence
    IN  /\ Len(seq) = 24
        /\ IsPaddedDecimalOf(SubSeq(seq, 1, 12), a.ledgerVersion, 12)
        /\ seq[13] = "."
        /\ IsPaddedDecimalOf(SubSeq(seq, 14, 21), a.indexInLedger, 8)
        /\ seq[22] = "."
        /\ SubSeq(seq, 23, 24) = (IF a.type = "out" THEN <<"0", "0">> ELSE <<"0", "1">>)

\* "000001000000.00000003.00"
ExampleSequence ==
    <<"0", "0", "0", "0", "0", "1", "0", "0", "0", "0", "0", "0", ".",
      "0", "0", "0", "0", "0", "0", "0", "3", ".", "0", "0">>

\* C17: the activitySequence is the ledger version in 12 digits, '.', the
\* index in the ledger in 8 digits, '.', and 00 (out) or 01 (in); ledger
\* 1000000, index 3, out gives "000001000000.00000003.00"; and one
\* activitySequence sorts before another exactly when its activity comes
\* first by ledger version, index in the ledger, and out before in
C17_SortableSequence ==
    Len(loc.sequenced) = 2 =>
        LET a == loc.sequenced[1]
            b == loc.sequenced[2]
        IN  /\ WellFormedSequence(a)
            /\ (a.ledgerVersion = 1000000 /\ a.indexInLedger = 3 /\ a.type = "out")
                  => a.activitySequence = ExampleSequence
            /\ LexLess(a.activitySequence, b.activitySequence) <=> PositionLess(a, b)

\* the example, next to an activity of an earlier ledger with a later index
C17_Witness ==
    /\ Len(loc.sequenced) = 2
    /\ loc.sequenced[1].activitySequence = ExampleSequence
    /\ loc.sequenced[2].ledgerVersion = 999999
    /\ loc.sequenced[2].indexInLedger = 10
    /\ LexLess(loc.sequenced[2].activitySequence, loc.sequenced[1].activitySequence)


\* the account was built by HdRipplePayments from an xpub
BuiltFromXpub == xprv.null /\ ~xpub.null

\* a call of name has ended
Ended(name) == pc = "done" /\ op.name = name

C19_BasePathSuffix ==
    /\ Ended("deriveBasePath") =>
          /\ loc.base.error = ""
          /\ loc.base.key.path =
                op.hdKey.path \o SubSeq(derivationPathParts, Len(op.hdKey.path) + 1,
                                        Len(derivationPathParts))
          /\ loc.baseAgain = loc.base
    /\ Ended("deriveSignatory") => loc.direct = loc.viaBase


\* the k-th rejected call of the operation belongs to the lookup that
\* broadcastTransaction starts with
LookupRejected(k) ==
    /\ op.name = "broadcastTransaction"
    /\ loc.rejected[k] \in {"getTransaction", "getLedger", "getLedgerVersion"}

\* the k-th rejected call is the settings query of payport validation
SettingsRejected(k) ==
    /\ op.name \in {"validatePayport", "isValidPayport"}
    /\ loc.rejected[k] = "getSettings"

\* the operation has failed
Failed == pc = "done" /\ result.status = "error"

\* C20 (amended): a rejected call of the ledger client makes the operation
\* fail, unless it belongs to the lookup of broadcastTransaction or is the
\* settings query of payport validation; after a rejected settings query
\* the payport is judged as one whose address requires no extraId
C20_ErrorsPropagate ==
    /\ \A k \in 1..Len(loc.rejected) :
          LookupRejected(k) \/ SettingsRejected(k) \/ Failed
    /\ (pc = "done" /\ Len(loc.rejected) > 0
           /\ op.name \in {"validatePayport", "isValidPayport"}) =>
          LET acceptable == op.to.extraId.nil \/ isValidExtraId(op.to.extraId)
          IN  IF op.name = "isValidPayport"
              THEN result.status = "ok" /\ result.valid = acceptable
              ELSE (result.status = "ok") = acceptable
    /\ (pc = "done" /\ op.name = "isValidPayport" /\ loc.requireExtraId
           /\ op.to.extraId.nil) => ~result.valid

\* validatePayport has accepted a payport although its settings query was
\* rejected
C20_Witness ==
    /\ pc = "done"
    /\ op.name = "validatePayport"
    /\ loc.rejected = <<"getSettings">>
    /\ result.status = "ok"

\* C20 as stated: a rejected call of the ledger client makes the operation
\* fail, unless it belongs to the lookup of broadcastTransaction
C20_AsStated ==
    \A k \in 1..Len(loc.rejected) : LookupRejected(k) \/ Failed


\* C21: once the visitor of retrieveBalanceActivities has thrown, the call
\* has ended with that very error: the visitor is not called again, no
\* page and no ledger is asked for, and no retry with its disconnect and
\* connect is under way, whatever the class of the error
C21_VisitorErrorPropagates ==
    (op.name = "retrieveBalanceActivities" /\ loc.visitorThrew # "") =>
        /\ pc = "done"
        /\ result.status = "error"
        /\ result.error = loc.visitorThrew
        /\ loc.visited[Len(loc.visited)].activity = Head(loc.pending)
        /\ apiLog[Len(apiLog)] = "getLedger"
        /\ rt.phase = "idle"
        /\ \A k \in 1..Len(apiLog) : apiLog[k] \notin {"connect", "disconnect"}

\* the visitor has thrown a connection error at the first activity of a
\* retrieval
C21_Witness ==
    /\ op.name = "retrieveBalanceActivities"
    /\ loc.visitorThrew = "ConnectionError"
    /\ Len(loc.visited) = 1
    /\ pc = "done"


\* what a createTransaction call that has ended in an error violated
CreateFailed == op.name = "createTransaction" /\ pc = "done" /\ result.status = "error"
AmountRejected == bnIsNaN(op.amount) \/ bnLte(op.amount, Fin(0))
SelfSend == loc.fromTo.fromAddress = loc.fromTo.toAddress
OptionRejected ==
    /\ FromSubAccount
    /\ (op.options.payportBalance.t # "string" \/ bnIsNaN(op.options.payportBalance.v))
ReserveMissing == LastQueried < MIN_BALANCE
Spendable == Fin(LastQueried - MIN_BALANCE)
BalanceMissing ==
    bnLt(bnMinus(Spendable, bnPlus(op.amount, Fin(loc.feeOption.feeMain))), Fin(0))
PayportBalanceMissing ==
    /\ FromSubAccount
    /\ bnGt(bnPlus(op.amount, Fin(loc.feeOption.feeMain)), loc.payportBalance)
EntryPassed == ~OptionRejected /\ ~AmountRejected /\ (bundle = "es" => ~SelfSend)

\* C22: the error of a createTransaction call is that of the first violated
\* rule in the order of the code: the payportBalance option of a sub-account
\* source (missing, or not a number) is judged while the source balance is
\* resolved, ahead of the amount; then come the amount, the self-send (ES
\* build only), the reserve, the balance and the payport balance
C22_ValidationOrder ==
    CreateFailed =>
        /\ result.error \in {"MissingPayportBalance", "InvalidPayportBalance"} =>
              OptionRejected
        /\ result.error = "InvalidAmount" => ~OptionRejected /\ AmountRejected
        /\ result.error = "SelfSend" =>
              ~OptionRejected /\ ~AmountRejected /\ SelfSend /\ bundle = "es"
        /\ result.error = "InsufficientReserve" => EntryPassed /\ ReserveMissing
        /\ result.error = "InsufficientBalance" =>
              EntryPassed /\ ~ReserveMissing /\ BalanceMissing
        /\ result.error = "InsufficientPayportBalance" =>
              EntryPassed /\ ~ReserveMissing /\ ~BalanceMissing /\ PayportBalanceMissing

\* an invalid amount sent from a sub-account payport without payportBalance
C22_Witness ==
    /\ CreateFailed
    /\ AmountRejected
    /\ op.options.payportBalance.t = "undefined"
    /\ result.error = "MissingPayportBalance"

\* C22 as stated: a call with an invalid amount that fails one of the rules
\* fails with the invalid-amount error
C22_AsStated ==
    (/\ CreateFailed
     /\ AmountRejected
     /\ result.error \in {"InvalidAmount", "SelfSend", "InsufficientReserve",
                          "InsufficientBalance", "InsufficientPayportBalance",
                          "MissingPayportBalance"})
        => result.error = "InvalidAmount"


\* the ledger calls a build makes before preparePayment
FeeCalls == IF TieredCall THEN <<"getFee">> ELSE <<>>
BalanceCalls ==
    IF FromSubAccount THEN <<"getBalances">> ELSE <<"getBalances", "getBalances">>

\* C23: a build that succeeds has issued, in this order, one fee query when
\* the fee is tiered and none when it is custom, one balance query when the
\* source is a sub-account payport and two when it is a bare address (one to
\* resolve the source balance, one in doCreateTransaction), and last one
\* preparePayment; a build that fails a validation rule has issued no
\* preparePayment
C23_CallsPerBuild ==
    /\ BuildSucceeded => apiLog = FeeCalls \o BalanceCalls \o <<"preparePayment">>
    /\ (BuildCall /\ pc = "done" /\ result.status = "error"
            /\ result.error # "LedgerError") => ~Called("preparePayment")

\* a build from a bare address with a custom fee has succeeded
C23_Witness ==
    /\ BuildSucceeded
    /\ ~FromSubAccount
    /\ ~TieredCall
    /\ Count("getBalances") = 2
    /\ Count("getFee") = 0

\* C23 as stated: one balance query, one fee query, one preparePayment
C23_AsStated ==
    BuildSucceeded =>
        /\ Count("getBalances") = 1
        /\ Count("getFee") = 1
        /\ Count("preparePayment") = 1


(***************************************************************************)
(* Properties of the pagination (SpecPages).                               *)
(***************************************************************************)
Paging == op.name = "retrieveBalanceActivities" /\ pc = "page"
ShortPage == loc.fetched /\ Len(loc.transactions) < limit
PastUpperBound ==
    /\ loc.fetched
    /\ loc.lastTx # 0
    /\ loc.to # 0
    /\ lastLedgerVersion(loc.history, loc.lastTx) > loc.to

\* C24: the loop of retrieveBalanceActivities ends as soon as a page has
\* returned fewer than `limit` transactions (an empty first page included)
\* or the last transaction's ledger version exceeds the upper bound: no
\* further page is asked for
C24_LoopEnds ==
    [][(Paging /\ (ShortPage \/ PastUpperBound)) => pc' = "done"]_vars

\* the ES build ends the loop on a short page
C24_EsLoopEnds ==
    [][(bundle = "es" /\ Paging /\ (ShortPage \/ PastUpperBound)) => pc' = "done"]_vars

\* the ES build never asks for more than MaxFetches pages
C24_EsFetchesBounded == (bundle = "es" /\ Paging) => loc.pages < MaxFetches


\* the ids of the transactions of the history in the range of the
\* retrieval that yield an activity, in ledger order
InPageRange(tx) ==
    /\ (loc.from # 0 => tx.ledgerVersion >= loc.from)
    /\ (loc.to # 0 => tx.ledgerVersion <= loc.to)
DueVisits ==
    LET due == SelectSeq(loc.history, LAMBDA tx : InPageRange(tx) /\ tx.yields)
    IN  [k \in 1..Len(due) |-> due[k].id]
IsPrefix(s, t) == Len(s) <= Len(t) /\ s = SubSeq(t, 1, Len(s))
RetrievalOf == op.name = "retrieveBalanceActivities" /\ pc \in {"page", "done"}

\* C25: at every moment of a retrieval the visitor has been passed the
\* first of the due activities (those of the transactions in [from, to]
\* that yield one), each once and in ledger order, and all of them when the
\* retrieval returns
C25_VisitedOnceInOrder ==
    RetrievalOf =>
        /\ IsPrefix(loc.visited, DueVisits)
        /\ (pc = "done" => loc.visited = DueVisits)

\* the ES build visits each due activity once, in order
C25_EsVisitedOnceInOrder == bundle = "es" => C25_VisitedOnceInOrder

\* a retrieval of the ES build over three pages has returned
C25_EsThreePages ==
    /\ bundle = "es"
    /\ RetrievalOf
    /\ pc = "done"
    /\ loc.pages = 3
    /\ Len(loc.visited) > 2 * limit
    /\ Len(loc.visited) < Len(loc.history)


(***************************************************************************)
(* Properties of the reconnect of retryIfDisconnected (SpecRetry).         *)
(***************************************************************************)
\* a step of retryIfDisconnected that calls `method`
Calls(method) == op.name = "retryIfDisconnected" /\ apiLog' = Append(apiLog, method)
AfterConnectionError == Len(rt.thrown) > 0 /\ LastThrown \in CONNECTION_ERRORS
LastCalled == apiLog[Len(apiLog)]

\* C26: while a connection error of the operation is handled, disconnect is
\* called only with the client connected, connect is called next (at once
\* when the client was not connected) and with the client not connected,
\* and the operation is called again only right after connect has
\* completed, with the client connected
C26_ReconnectBeforeRetry ==
    [][/\ Calls("disconnect") =>
            connected /\ AfterConnectionError /\ LastCalled = "fn"
       /\ Calls("connect") =>
            /\ ~connected /\ AfterConnectionError
            /\ LastCalled \in {"fn", "disconnect"}
       /\ (Calls("fn") /\ AfterConnectionError) =>
            connected /\ LastCalled = "connect"
       /\ (op.name = "retryIfDisconnected" /\ rt.phase \in {"disconnect", "connect"}) =>
            ~Calls("fn")]_vars

\* the second call of the operation is about to start after a connection
\* error that found the client connected
C26_Witness ==
    /\ RetryCall
    /\ rt.phase = "call" /\ rt.attempt = 2
    /\ rt.thrown = <<"DisconnectedError">>
    /\ apiLog = <<"fn", "disconnect", "connect">>
    /\ connected

\* C27: when the operation throws a TimeoutError, the next call of
\* retryIfDisconnected to the ledger client is the operation again: neither
\* disconnect nor connect is called for it, and the handling leaves the
\* connection state as it was
C27_TimeoutKeepsConnection ==
    [][/\ (Calls("fn") /\ rt'.thrown = Append(rt.thrown, "TimeoutError")) =>
            /\ connected' = connected
            /\ IF rt.attempt <= MAX_RETRIES
               THEN rt'.phase = "call" /\ rt'.attempt = rt.attempt + 1 /\ pc' = "retry"
               ELSE rt'.phase = "done" /\ pc' = "done" /\ result'.error = "TimeoutError"
       /\ (RetryCall /\ Len(rt.thrown) > 0 /\ LastThrown = "TimeoutError") =>
            /\ rt.phase \in {"call", "done"}
            /\ ~Calls("disconnect") /\ ~Calls("connect")]_vars

\* the operation is about to be called again after a timeout, the client
\* not being connected
C27_Witness ==
    /\ RetryCall
    /\ rt.phase = "call" /\ rt.attempt = 2
    /\ rt.thrown = <<"TimeoutError">>
    /\ apiLog = <<"fn">>
    /\ ~connected

\* C28: once disconnect or connect has rejected, retryIfDisconnected has
\* rejected with that very error: the rejected call is the last call made,
\* the operation was called once per attempt and not again, whatever the
\* class of the error and however many retries remain
C28_ReconnectFailureRejects ==
    (RetryCall /\ rt.failed # NoError) =>
        /\ pc = "done"
        /\ rt.phase = "done"
        /\ result.status = "error"
        /\ result.error = rt.failed.name
        /\ rt.rejected = rt.failed
        /\ LastCalled = rt.failed.by
        /\ Count("fn") = rt.failed.at
        /\ rt.attempt = rt.failed.at

\* connect rejected with a ConnectionError while the error of the first
\* attempt was handled
C28_Witness ==
    /\ RetryCall /\ pc = "done"
    /\ rt.failed = ReconnectErrorAt("ConnectionError", 1, "connect")
    /\ apiLog = <<"fn", "connect">>
    /\ result.error = "ConnectionError"


(***************************************************************************)
(* Properties of live delivery (SpecLive).                                 *)
(***************************************************************************)
Live == op.name = "onBalanceActivity" /\ pc = "live"
Ascending(seq) == \A i, j \in 1..Len(seq) : i < j => seq[i] < seq[j]
YieldingOf(seq) == SelectSeq(seq, LAMBDA n : loc.live[n].kind = "activity")

\* C29 (as the code has it): the callback gets the activities in the order
\* in which the getLedger lookups of their transactions resolve, each once
\* and only for a transaction that yields one: A's activity comes before
\* B's exactly when A's lookup resolves before B's, whatever the order in
\* which the ledger client pushed A and B
C29_DeliveredAsResolved ==
    Live =>
        /\ loc.visited = YieldingOf(loc.resolved)
        /\ \A i, j \in 1..Len(loc.resolved) : i # j => loc.resolved[i] # loc.resolved[j]
        /\ \A n \in 1..Len(loc.live) :
              loc.live[n].phase = "getLedger" =>
                  \A k \in 1..Len(loc.visited) : loc.visited[k] # n

\* the second transaction pushed was delivered before the first, whose
\* lookup was retried
C29_Witness ==
    /\ Live
    /\ Len(loc.live) = 2
    /\ loc.live[1].kind = "activity" /\ loc.live[2].kind = "activity"
    /\ loc.live[1].attempt = 2
    /\ loc.visited = <<2, 1>>

\* C29 as stated: the activities are delivered in the order of the pushes
C29_AsStated == Live => Ascending(loc.visited)


(***************************************************************************)
(* Properties of getBalance (SpecBalance).                                 *)
(***************************************************************************)
BalanceReturned == op.name = "getBalance" /\ pc = "done" /\ result.status = "ok"

\* C30: a balance that getBalance reports as sweepable has a confirmedBalance
\* above zero and comes from an address that holds more than the reserve
C30_SweepablePositive ==
    (BalanceReturned /\ result.balance.sweepable) =>
        /\ result.balance.confirmedBalance > 0
        /\ LastQueried > MIN_BALANCE

\* the UMD build reports an address as sweepable only above the reserve
C30_UmdSweepablePositive == bundle = "umd" => C30_SweepablePositive

==============================================================================
